---- MODULE Spec2Model ----
(***************************************************************************)
(* Image priming subsystem of gapis/api/vulkan: the strategy selector      *)
(* (newPrimeableImageData), the primeable variants and their free(), the   *)
(* buffer->image copy session (rolloutBufCopies) and the stencil path of   *)
(* the render handler.                                                     *)
(*                                                                         *)
(* The module holds three state machines over one variable list:           *)
(*   SpecSelector  newPrimeableImageData, free() and the priming queue     *)
(*   SpecRollout   collectCopies... and rolloutBufCopies, task by task     *)
(*   SpecStencil   render() of a stencil target and the commit of its task *)
(* A specification leaves the variables of the other two at their idle     *)
(* values.                                                                 *)
(***************************************************************************)
EXTENDS Integers, Sequences, FiniteSets, TLC

VARIABLES
    \* ---- selector: inputs of newPrimeableImageData
    img,            \* the old-state image: usage, aspects, tiling, initialLayout, elemSize, levels
    fromHostData,   \* the fromHostData argument
    queues,         \* the queues getQueueFor can return
    collected,      \* mip levels of opaqueBoundRanges (the levels that have data)
    \* ---- selector: program state
    pc,             \* "start", "built" (a primeable was returned), "failed" (an error was returned)
    strategy,       \* the strategy whose condition matched: "copy", "render", "store", "preinit", "none"
    primeable,      \* the returned primeableImageData (kind "nil": none)
    err,            \* the returned error ("nil": none)
    written,        \* commands written to the state builder outside command buffers, in order
    tasks,          \* scratch tasks committed on queues, in commit order
    executed,       \* indices of the tasks that have executed
    nextId,         \* next unused handle
    frees,          \* number of free() calls made by the driver
    commitErrs,     \* the tsk.commit() calls that returned an error: [call, step]
    primeCalls,     \* the prime() calls made on the primeable: [dstLayout, err]
    \* ---- copy session: ipBufferImageCopySession and the call of rolloutBufCopies
    hJob,           \* h.job: the source aspects in bit order and srcAspectsToDsts
    hCopies,        \* h.copies with the size of h.content: per destination image, the descriptors
    hContent,       \* h.content: per destination image, the fill infos of the buffer ranges
    totalSize,      \* h.totalSize
    collects,       \* calls of the two collect functions made
    logged,         \* the <<aspect, level, dstIndex>> whose getCopyAndData error was logged
    srcLayout,      \* the layout oracles prime hands to rolloutBufCopies
    dstLayout,
    rolloutPc,      \* "idle", "collect", "pre", "batch", "post", "returned"
    dstOrder,       \* the order in which `range h.job.srcAspectsToDsts` yields the aspects
    dstPos,         \* <<index in dstOrder, index in dst.dstImgs>> of the destination at work
    notProcessedCopies,
    committed,      \* the tasks rolloutBufCopies has committed, in order
    rolloutErr,     \* what rolloutBufCopies returned ("nil": no error)
    primeErr,       \* what ipPrimeableByBufferCopy.prime returned
    addDstCall,     \* the last addDst call on h.job: its arguments and what it returned
    \* ---- render() of a stencil target, for one pixel
    stencilPc,      \* "idle", "render" (in the loop), "recorded" (render returned), "committed"
    loopVarPerIteration, \* the Go toolchain gives each iteration its own loop variable
    srcStencil,     \* the stencil value of the pixel in the staging image
    storedStencil,  \* the stencil value of the pixel in the render target
    loopI,          \* the loop variable i of the 8 passes
    recorded,       \* the commands recorded on the task, in order
    \* ---- the handlers of one imagePrimer: ipImageStoreHandler and ipRenderHandler
    caches,         \* the maps of both handlers: key -> handle of the cached object
    hWritten,       \* create commands the handlers wrote to the state builder, in order
    hDestroyed,     \* handles the free() of the handlers wrote a destroy command for
    hNextId,        \* next unused handle
    calls,          \* number of store() and prime() calls made
    lastCall,       \* the last call: its job, what it returned, the errors it logged
    lastTasks,      \* the tasks the last call committed
    hPc,            \* "idle", "open" (handlers constructed), "freed"
    \* ---- two host threads priming by rendering through one render handler
    tPc,            \* per thread: "idle", "start", "rendered", "written", "submitted"
    tJobs,          \* per thread: the render jobs of its task, each with its descriptor set
    dsWrittenFor,   \* descriptor set -> the job whose views it was last written with
    submitted,      \* the tasks submitted, in order, with what their descriptor sets held
    renderTaskCommitLock,   \* per thread: whether the mutex of its primeable is locked
    \* ---- one call of getCopyAndData
    cdIn,           \* the source level, its data, the formats and the requested region
    cdOut           \* <<>> before the call; after it the error, payload and copy region

selVars == <<img, fromHostData, queues, collected, pc, strategy, primeable, err,
             written, tasks, executed, nextId, frees, commitErrs, primeCalls>>

rollVars == <<hJob, hCopies, hContent, totalSize, collects, logged, srcLayout, dstLayout, rolloutPc, dstOrder,
              dstPos, notProcessedCopies, committed, rolloutErr, primeErr, addDstCall>>

stVars == <<stencilPc, loopVarPerIteration, srcStencil, storedStencil, loopI, recorded>>

hdlVars == <<caches, hWritten, hDestroyed, hNextId, calls, lastCall, lastTasks, hPc>>

thrVars == <<tPc, tJobs, dsWrittenFor, submitted, renderTaskCommitLock>>

cdVars == <<cdIn, cdOut>>

vars == <<selVars, rollVars, stVars, hdlVars, thrVars, cdVars>>

\* ------------------------------------------------------------------ bounds

MaxSubres == 2      \* mip levels of an image
MaxFree == 2        \* free() calls on one primeable
MaxPrime == 2       \* prime() calls on one primeable
MaxStorePrime == 1  \* prime() calls on one by-image-store primeable
MaxCalls == 2       \* store() and prime() calls on the handlers of one imagePrimer
MaxExtent == 2      \* width, height and depth of a level, in texels
NumValues == 5      \* values a channel of a texel to unpack is drawn from
MaxUnpackTexels == 2 \* texels of the data to unpack

\* ------------------------------------------------------------------ helpers

Range(s) == {s[k] : k \in DOMAIN s}

RECURSIVE Flatten(_)
Flatten(ss) == IF ss = <<>> THEN <<>> ELSE Head(ss) \o Flatten(Tail(ss))

\* ------------------------------------------------------------------ images and queues

UsageBits == {"TRANSFER_DST", "COLOR_ATTACHMENT", "DEPTH_STENCIL_ATTACHMENT", "STORAGE"}

\* sb.imageAspectFlagBits(img, img.ImageAspect()): the aspects of the image, in bit order
AspectSeqs == {<<"COLOR">>, <<"DEPTH">>, <<"STENCIL">>, <<"DEPTH", "STENCIL">>}

Tilings == {"OPTIMAL", "LINEAR"}
InitialLayouts == {"UNDEFINED", "PREINITIALIZED"}

\* Bytes per element of the image format: 4 (e.g. RGBA8) or 32 (R64G64B64A64)
ElemSizes == {4, 32}

\* Images a Vulkan application can create: the attachment usage bit agrees with the
\* aspects of the format, and only color formats are wider than 4 bytes per channel set.
ValidImage(i) ==
    /\ ("COLOR" \in Range(i.aspects)) => ("DEPTH_STENCIL_ATTACHMENT" \notin i.usage)
    /\ ("COLOR" \notin Range(i.aspects)) => ("COLOR_ATTACHMENT" \notin i.usage)
    /\ ("COLOR" \notin Range(i.aspects)) => (i.elemSize = 4)

Images ==
    {i \in [usage : SUBSET UsageBits, aspects : AspectSeqs, tiling : Tilings,
            initialLayout : InitialLayouts, elemSize : ElemSizes,
            levels : 1..MaxSubres] : ValidImage(i)}

NilQueue == [id |-> 0, flags |-> {}, inNew |-> FALSE]

\* The queues of the device: their family's flags and whether the queue exists in
\* the new state.
QueuePool ==
    { [id |-> 1, flags |-> {"GRAPHICS", "COMPUTE", "TRANSFER"}, inNew |-> TRUE],
      [id |-> 2, flags |-> {"COMPUTE", "TRANSFER"}, inNew |-> TRUE],
      [id |-> 3, flags |-> {"COMPUTE"}, inNew |-> FALSE] }

\* getQueueForPriming: a queue whose family supports the requested operations, or
\* the nil queue when there is none.
GetQueueForPriming(queueFlagBits) ==
    LET ok == {q \in queues : q.flags \cap queueFlagBits # {}}
    IN  IF ok = {} THEN {NilQueue} ELSE ok

AnyQueueFlags == {"TRANSFER", "GRAPHICS", "COMPUTE"}

\* ------------------------------------------------------------------ layout oracles

\* useSpecifiedLayout(layout)
UseSpecifiedLayout(layout) == [kind |-> "specified", layout |-> layout, of |-> <<>>]

\* sameLayoutsOfImage(img): `of` maps the subresources the image has to their layout
SameLayoutsOfImage(of) == [kind |-> "image", layout |-> "UNDEFINED", of |-> of]

\* ipLayoutInfo.layoutOf
LayoutOf(oracle, aspect, layer, level) ==
    IF oracle.kind = "specified" THEN oracle.layout
    ELSE IF <<aspect, layer, level>> \in DOMAIN oracle.of
         THEN oracle.of[<<aspect, layer, level>>]
         ELSE "UNDEFINED"

\* The <<srcLayout, dstLayout>> oracles a caller of prime passes
LayoutOracles ==
    {<<UseSpecifiedLayout("UNDEFINED"), UseSpecifiedLayout("SHADER_READ_ONLY_OPTIMAL")>>,
     <<SameLayoutsOfImage([s \in {"COLOR", "DEPTH", "STENCIL"} \X {0, 1} \X {0, 1} |->
                             IF s[3] = 0 THEN "GENERAL" ELSE "PREINITIALIZED"]),
       UseSpecifiedLayout("GENERAL")>>}

\* ------------------------------------------------------------------ scratch tasks

\* A committed scratch task: the queue it is committed on, what its command buffer
\* holds (barriers of a layout transition, the copies of a batch with the size of
\* its scratch buffer) and the callbacks deferred until it has executed.
Task(kind, queue, image, aspect, barriers, copies, bufOffset, deferred) ==
    [kind |-> kind, queue |-> queue, img |-> image, aspect |-> aspect,
     barriers |-> barriers, copies |-> copies, bufOffset |-> bufOffset,
     deferred |-> deferred]

\* ------------------------------------------------------------------ rolloutBufCopies

\* Size of a scratch buffer, scaled down from the repository's value.
scratchBufferSize == 1024

BufferAlignment == 256

NextMultipleOf(v, m) == ((v + m - 1) \div m) * m

\* ipImageBarrierAspectFlags: a combined depth/stencil format is always
\* transitioned with both aspects.
IpImageBarrierAspectFlags(aspect, combined) ==
    IF combined THEN {aspect, "DEPTH", "STENCIL"} ELSE {aspect}

\* The (layer, level) pairs in the order of the two nested loops
RECURSIVE LayerLevels(_, _, _, _)
LayerLevels(layers, levels, layer, level) ==
    IF layer >= layers THEN <<>>
    ELSE IF level >= levels THEN LayerLevels(layers, levels, layer + 1, 0)
    ELSE <<[layer |-> layer, level |-> level]>>
             \o LayerLevels(layers, levels, layer, level + 1)

\* preCopyDstImgBarriers
PreCopyDstImgBarriers(dstAspect, dstImg, initLayouts) ==
    LET ll == LayerLevels(dstImg.layers, dstImg.levels, 0, 0)
    IN  [k \in DOMAIN ll |->
            [layer |-> ll[k].layer, level |-> ll[k].level,
             aspectMask |-> IpImageBarrierAspectFlags(dstAspect, dstImg.combined),
             oldLayout |-> LayoutOf(initLayouts, dstAspect, ll[k].layer, ll[k].level),
             newLayout |-> "TRANSFER_DST_OPTIMAL"]]

\* postCopyDstImgBarriers
PostCopyDstImgBarriers(dstAspect, dstImg, finalLayouts) ==
    LET ll == LayerLevels(dstImg.layers, dstImg.levels, 0, 0)
    IN  [k \in DOMAIN ll |->
            [layer |-> ll[k].layer, level |-> ll[k].level,
             aspectMask |-> IpImageBarrierAspectFlags(dstAspect, dstImg.combined),
             oldLayout |-> "TRANSFER_DST_OPTIMAL",
             newLayout |-> LayoutOf(finalLayouts, dstAspect, ll[k].layer, ll[k].level)]]

PreCopyTask(queue, dstAspect, dstImg, initLayouts) ==
    Task("preCopy", queue, dstImg.id, dstAspect,
         PreCopyDstImgBarriers(dstAspect, dstImg, initLayouts), <<>>, 0, <<>>)

PostCopyTask(queue, dstAspect, dstImg, finalLayouts) ==
    Task("postCopy", queue, dstImg.id, dstAspect,
         PostCopyDstImgBarriers(dstAspect, dstImg, finalLayouts), <<>>, 0, <<>>)

\* A batch whose first entry is checked against the scratch buffer like the
\* others: no entry is taken when the first does not fit
RECURSIVE BatchLenFirstChecked(_, _, _)
BatchLenFirstChecked(notProcessed, i, bufOffset) ==
    IF i = 2 /\ NextMultipleOf(bufOffset, BufferAlignment) > scratchBufferSize THEN 0
    ELSE IF i > Len(notProcessed) THEN i - 1
    ELSE IF NextMultipleOf(bufOffset + notProcessed[i].size, BufferAlignment) > scratchBufferSize
         THEN i - 1
         ELSE BatchLenFirstChecked(notProcessed, i + 1, bufOffset + notProcessed[i].size)

\* The inner loop of a batch: entry 1 is always taken (addIthCopyAndContent(0)),
\* entry i is taken while the offset after it, rounded up, fits the scratch buffer.
\* Gives the number of entries of the batch.
RECURSIVE BatchLen(_, _, _)
BatchLen(notProcessed, i, bufOffset) ==
    IF i > Len(notProcessed) THEN i - 1
    ELSE IF NextMultipleOf(bufOffset + notProcessed[i].size, BufferAlignment) > scratchBufferSize
         THEN i - 1
         ELSE BatchLen(notProcessed, i + 1, bufOffset + notProcessed[i].size)

\* Offset of entry i of a batch: the sizes of the entries before it
RECURSIVE OffsetIn(_, _)
OffsetIn(notProcessed, i) ==
    IF i <= 1 THEN 0 ELSE OffsetIn(notProcessed, i - 1) + notProcessed[i - 1].size

\* One iteration of the batching loop over a non-empty pending list: the task
\* that is committed.
CopyBatchTask(queue, dstAspect, dstImg, notProcessed) ==
    LET n == BatchLen(notProcessed, 2, notProcessed[1].size)
    IN  Task("copy", queue, dstImg.id, dstAspect, <<>>,
             [i \in 1..n |-> [id |-> notProcessed[i].id,
                              bufferOffset |-> OffsetIn(notProcessed, i)]],
             OffsetIn(notProcessed, n + 1), <<>>)

\* notProcessedCopies[len(copies):]
DropBatch(notProcessed, task) ==
    SubSeq(notProcessed, Len(task.copies) + 1, Len(notProcessed))

\* All batch tasks of one destination image
RECURSIVE CopyBatchTasks(_, _, _, _)
CopyBatchTasks(queue, dstAspect, dstImg, notProcessed) ==
    IF notProcessed = <<>> THEN <<>>
    ELSE LET t == CopyBatchTask(queue, dstAspect, dstImg, notProcessed)
         IN  <<t>> \o CopyBatchTasks(queue, dstAspect, dstImg, DropBatch(notProcessed, t))

\* The tasks of one destination image of one entry of srcAspectsToDsts
DstImgTasks(queue, dstAspect, dstImg, copiesOf, initLayouts, finalLayouts) ==
    <<PreCopyTask(queue, dstAspect, dstImg, initLayouts)>>
        \o CopyBatchTasks(queue, dstAspect, dstImg, copiesOf[dstImg.id])
        \o <<PostCopyTask(queue, dstAspect, dstImg, finalLayouts)>>

\* The tasks of a rollout that no commit fails: the entries of srcAspectsToDsts
\* in the order `order` the map iteration yields them, each entry's images in
\* list order.
RECURSIVE RolloutTasks(_, _, _, _, _, _)
RolloutTasks(queue, order, dsts, copiesOf, initLayouts, finalLayouts) ==
    IF order = <<>> THEN <<>>
    ELSE LET dst == dsts[Head(order)]
         IN  Flatten([k \in DOMAIN dst.dstImgs |->
                         DstImgTasks(queue, dst.dstAspect, dst.dstImgs[k], copiesOf,
                                     initLayouts, finalLayouts)])
                 \o RolloutTasks(queue, Tail(order), dsts, copiesOf, initLayouts, finalLayouts)

\* The early returns of rolloutBufCopies: nothing was collected
NoContent(copiesOf) ==
    \/ DOMAIN copiesOf = {}
    \/ \A i \in DOMAIN copiesOf : \A k \in DOMAIN copiesOf[i] : copiesOf[i][k].size = 0

\* The orders in which a Go map with key set S can be iterated
Orders(S) == {o \in [1..Cardinality(S) -> S] : Range(o) = S}

\* ------------------------------------------------------------------ host-side commands

\* A command written to the state builder. `by` is 0 for a command written by the
\* running host call and k for one written by a callback deferred on tasks[k].
Cmd(op, obj, by) == [op |-> op, obj |-> obj, by |-> by]

Stamp(cmds, by) == [k \in DOMAIN cmds |-> Cmd(cmds[k].op, cmds[k].obj, by)]

DestroyOps == {"VkDestroyImage", "VkFreeMemory", "VkDestroyImageView"}

\* createImageAndBindMemory(handle): vkCreateImage is written before the only
\* failure point (subInferImageSize); memory is allocated and bound after it.
CreateImageAndBindMemory(handle, ok) ==
    IF ok
    THEN <<Cmd("vkCreateImage", handle, 0), Cmd("vkAllocateMemory", handle, 0),
           Cmd("vkBindImageMemory", handle, 0)>>
    ELSE <<Cmd("vkCreateImage", handle, 0)>>

\* Element sizes of create32BitUintColorStagingImagesForAspect
SrcElementSize(i, aspect) ==
    IF aspect = "COLOR" THEN i.elemSize ELSE IF aspect = "DEPTH" THEN 4 ELSE 1

StagingElementSize(aspect) == IF aspect = "COLOR" THEN 16 ELSE 4

\* Iterations of the loop `for covered < srcElementSize`
StagingCount(i, aspect) ==
    (SrcElementSize(i, aspect) + StagingElementSize(aspect) - 1) \div StagingElementSize(aspect)

\* What can go wrong in one call: 0 nothing, -1 a check before the loop (compressed
\* format, no memory type), k > 0 the k-th createImageAndBindMemory.
StagingFailChoices(n) == {-1, 0} \cup (1..n)

\* create32BitUintColorStagingImagesForAspect: the staging images (empty on
\* error), the commands written, the free callback (a no-op on error).
Create32BitUintColorStagingImagesForAspect(i, aspect, base, failAt) ==
    LET n == StagingCount(i, aspect)
        made == IF failAt = -1 THEN 0 ELSE IF failAt = 0 THEN n ELSE failAt
    IN  [failed |-> failAt # 0,
         stagingImgs |-> IF failAt = 0
                         THEN [k \in 1..n |-> [id |-> base + k - 1, layers |-> 1,
                                                levels |-> i.levels, combined |-> FALSE]]
                         ELSE <<>>,
         written |-> Flatten([k \in 1..made |->
                                 CreateImageAndBindMemory(base + k - 1, k # failAt)]),
         free |-> IF failAt = 0
                  THEN [k \in 1..n |-> [op |-> "VkDestroyImage", obj |-> base + k - 1]]
                           \o [k \in 1..n |-> [op |-> "VkFreeMemory", obj |-> base + k - 1]]
                  ELSE <<>>,
         nextId |-> base + made]

\* createSameStagingImage: failAt -1 no memory type, 1 createImageAndBindMemory, 0 none
CreateSameStagingImage(base, failAt) ==
    [failed |-> failAt # 0,
     stagingImg |-> IF failAt = 0 THEN base ELSE 0,
     written |-> IF failAt = -1 THEN <<>> ELSE CreateImageAndBindMemory(base, failAt = 0),
     free |-> IF failAt = 0
              THEN <<[op |-> "VkDestroyImage", obj |-> base],
                     [op |-> "VkFreeMemory", obj |-> base]>>
              ELSE <<>>,
     nextId |-> IF failAt = -1 THEN base ELSE base + 1]

\* ------------------------------------------------------------------ free()

\* deferUntilAllCommittedExecuted(sb, queue, f...): a new task on `queue` whose
\* deferred callback runs f in order; the error of commit() is dropped, and a task
\* whose commit failed is not on the queue.
DeferUntilAllCommittedExecuted(queue, f, commitOk) ==
    IF commitOk THEN <<Task("free", queue, 0, "", <<>>, <<>>, 0, Flatten(f))>> ELSE <<>>

\* free() that runs its callbacks at once
FreeWritesImmediately(pi) == Stamp(Flatten(pi.freeCallbacks), 0)

\* What ipPrimeableByRendering.free and ipPrimeableByImageStore.free write at
\* the time of the call and which tasks they commit.
FreeWrites(pi) == <<>>

FreeTasks(pi, commitOk) == DeferUntilAllCommittedExecuted(pi.queue, pi.freeCallbacks, commitOk)

\* free() that leaves pi.freeCallbacks as it is
FreeCallbacksKept(pi) == pi.freeCallbacks

\* `pi.freeCallbacks = nil`, the last statement of both free()
FreeCallbacksAfterFree(pi) == <<>>

\* ------------------------------------------------------------------ newPrimeableImageData

\* Handle of the image being primed; new handles are allocated above it.
ImgHandle == 1

NilPrimeable ==
    [kind |-> "nil", queue |-> 0, freeCallbacks |-> <<>>, storeJobs |-> <<>>,
     stagingImages |-> <<>>, copies |-> <<>>]

Primeable(kind, queue, freeCallbacks, storeJobs, stagingImages, copies) ==
    [kind |-> kind, queue |-> queue, freeCallbacks |-> freeCallbacks,
     storeJobs |-> storeJobs, stagingImages |-> stagingImages, copies |-> copies]

\* What one call returns and what it has done by then
Outcome(p, e, w, t, n) ==
    [primeable |-> p, err |-> e, written |-> w, tasks |-> t, nextId |-> n, commitErrs |-> {}]

\* The outcome of a call in which tsk.commit() returned an error in the steps
\* `steps` (none when `failed` is false)
CommitFailed(o, failed, steps) ==
    IF failed THEN [o EXCEPT !.commitErrs = @ \cup steps] ELSE o

IsDepth(i) == "DEPTH_STENCIL_ATTACHMENT" \in i.usage

\* Most-specific match instead of first match: an attachment is rendered to.
PrimeByCopyUnlessAttachment(i) ==
    "TRANSFER_DST" \in i.usage /\ ~IsDepth(i) /\ "COLOR_ATTACHMENT" \notin i.usage

PrimeByCopy(i) == "TRANSFER_DST" \in i.usage /\ ~IsDepth(i)

PrimeByRendering(i) ==
    ~PrimeByCopy(i) /\ i.usage \cap {"COLOR_ATTACHMENT", "DEPTH_STENCIL_ATTACHMENT"} # {}

PrimeByImageStore(i) == ~PrimeByCopy(i) /\ ~PrimeByRendering(i) /\ "STORAGE" \in i.usage

PrimeByPreinitialization(i) ==
    /\ ~PrimeByCopy(i) /\ ~PrimeByRendering(i) /\ ~PrimeByImageStore(i)
    /\ i.tiling = "LINEAR" /\ i.initialLayout = "PREINITIALIZED"

MatchedStrategy(i) ==
    IF PrimeByCopy(i) THEN "copy"
    ELSE IF PrimeByRendering(i) THEN "render"
    ELSE IF PrimeByImageStore(i) THEN "store"
    ELSE IF PrimeByPreinitialization(i) THEN "preinit"
    ELSE "none"

\* Bytes of one mip level in a scratch buffer: two levels do not share a batch.
LevelBytes == 3 * BufferAlignment

\* collectCopiesFromSubresourceRange over the levels 1..n of one source aspect:
\* one copy descriptor per level for a destination image.
CopiesOfAspect(aspect, n) == [k \in 1..n |-> [id |-> <<aspect, k>>, size |-> LevelBytes]]

\* The primed image as a copy destination
SelfDst(i) ==
    [id |-> ImgHandle, layers |-> 1, levels |-> i.levels,
     combined |-> {"DEPTH", "STENCIL"} \subseteq Range(i.aspects)]

\* The by-copy job: job.addDst(aspect, aspect, oldStateImgObj) for every aspect,
\* and the descriptors of all aspects in the list of the one destination image.
SelfJobDsts(i) ==
    [a \in Range(i.aspects) |-> [dstImgs |-> <<SelfDst(i)>>, dstAspect |-> a]]

SelfCopies(i, n) ==
    (ImgHandle :> Flatten([k \in DOMAIN i.aspects |-> CopiesOfAspect(i.aspects[k], n)]))

\* The loop over the aspects that creates the staging images, stopping at the
\* first error.
RECURSIVE StagingLoop(_, _, _, _)
StagingLoop(i, aspects, fails, st) ==
    IF aspects = <<>> THEN st
    ELSE LET a == Head(aspects)
             r == Create32BitUintColorStagingImagesForAspect(i, a, st.nextId, fails[a])
             st1 == [st EXCEPT !.written = @ \o r.written, !.nextId = r.nextId]
         IN  IF r.failed THEN [st1 EXCEPT !.failed = TRUE]
             ELSE StagingLoop(i, Tail(aspects), fails,
                      [st1 EXCEPT
                          !.dsts = (a :> [dstImgs |-> r.stagingImgs, dstAspect |-> "COLOR"]) @@ @,
                          !.copies = [d \in {r.stagingImgs[k].id : k \in DOMAIN r.stagingImgs}
                                         |-> CopiesOfAspect(a, collected)] @@ @,
                          !.freeCallbacks = Append(@, r.free)])

StagingStart ==
    [written |-> <<>>, nextId |-> nextId, failed |-> FALSE, dsts |-> <<>>,
     copies |-> <<>>, freeCallbacks |-> <<>>]

StagingFails(i) ==
    {f \in [Range(i.aspects) -> -1..2] :
        \A a \in Range(i.aspects) : f[a] \in StagingFailChoices(StagingCount(i, a))}

\* rolloutBufCopies as called by the selector: the tasks committed and whether it
\* returned an error. failAt 0: every commit succeeds; k: the k-th commit fails.
Rollout(queue, order, dsts, copiesOf, initLayouts, finalLayouts, failAt) ==
    IF NoContent(copiesOf) THEN [tasks |-> <<>>, failed |-> TRUE, commitFailed |-> FALSE]
    ELSE LET plan == RolloutTasks(queue, order, dsts, copiesOf, initLayouts, finalLayouts)
         IN  IF failAt = 0 \/ failAt > Len(plan)
             THEN [tasks |-> plan, failed |-> FALSE, commitFailed |-> FALSE]
             ELSE [tasks |-> SubSeq(plan, 1, failAt - 1), failed |-> TRUE,
                   commitFailed |-> TRUE]

RolloutLen(queue, order, dsts, copiesOf) ==
    IF NoContent(copiesOf) THEN 0
    ELSE Len(RolloutTasks(queue, order, dsts, copiesOf,
                          UseSpecifiedLayout("UNDEFINED"), UseSpecifiedLayout("UNDEFINED")))

\* The by-copy branch
ByCopyOutcomes(i, fromHost) ==
    IF ~fromHost THEN {Outcome(NilPrimeable, "NotImplemented", <<>>, <<>>, nextId)}
    ELSE {IF q = NilQueue
          THEN Outcome(NilPrimeable, "NilQueue", <<>>, <<>>, nextId)
          ELSE Outcome(Primeable("copy", q.id, <<>>, <<>>, SelfJobDsts(i),
                                 SelfCopies(i, collected)),
                       "nil", <<>>, <<>>, nextId)
          : q \in GetQueueForPriming(AnyQueueFlags)}

\* The by-rendering branch once it has a queue
ByRenderingWithQueue(i, q) ==
    UNION {
        LET st == StagingLoop(i, i.aspects, fails, StagingStart)
            pi == Primeable("render", q.id, st.freeCallbacks, <<>>, st.dsts, st.copies)
        IN  IF st.failed
            THEN {CommitFailed(Outcome(NilPrimeable, "CreateStaging",
                                       st.written \o FreeWrites(pi),
                                       FreeTasks(pi, freeOk), st.nextId),
                               ~freeOk, {"free"}) : freeOk \in BOOLEAN}
            ELSE UNION {
                {LET r == Rollout(q.id, order, st.dsts, st.copies,
                                  UseSpecifiedLayout("UNDEFINED"),
                                  UseSpecifiedLayout("SHADER_READ_ONLY_OPTIMAL"), failAt)
                 IN  IF r.failed
                     THEN CommitFailed(
                              CommitFailed(Outcome(NilPrimeable, "Rollout",
                                                   st.written \o FreeWrites(pi),
                                                   r.tasks \o FreeTasks(pi, freeOk), st.nextId),
                                           r.commitFailed, {"rolloutBufCopies"}),
                              ~freeOk, {"free"})
                     ELSE Outcome(pi, "nil", st.written, r.tasks, st.nextId)
                 : failAt \in 0..RolloutLen(q.id, order, st.dsts, st.copies),
                   freeOk \in BOOLEAN}
                : order \in Orders(Range(i.aspects))}
        : fails \in StagingFails(i)}

ByRenderingOutcomes(i, fromHost) ==
    IF ~fromHost THEN {Outcome(NilPrimeable, "NotImplemented", <<>>, <<>>, nextId)}
    ELSE UNION {IF q = NilQueue
                THEN {Outcome(NilPrimeable, "NilQueue", <<>>, <<>>, nextId)}
                ELSE ByRenderingWithQueue(i, q)
                : q \in GetQueueForPriming({"GRAPHICS"})}

\* The by-preinitialization branch
ByPreinitializationOutcomes(i, fromHost) ==
    IF ~fromHost THEN {Outcome(NilPrimeable, "NotImplemented", <<>>, <<>>, nextId)}
    ELSE {IF q = NilQueue
          THEN Outcome(NilPrimeable, "NilQueue", <<>>, <<>>, nextId)
          ELSE Outcome(Primeable("preinit", q.id, <<>>, <<>>, <<>>, <<>>),
                       "nil", <<>>, <<>>, nextId)
          : q \in GetQueueForPriming(AnyQueueFlags)}

\* ------------------------------------------------------------------ the image-store branch

\* getOrCreateImageView: a view per (image, aspect, level), created on first use.
\* `fails`: createImageViewForImageSubresource returns an error if it is called.
GetOrCreateImageView(st, info, fails) ==
    IF info \in DOMAIN st.views THEN [st EXCEPT !.ok = TRUE]
    ELSE IF fails THEN [st EXCEPT !.ok = FALSE]
    ELSE [st EXCEPT !.ok = TRUE,
                    !.views = (info :> st.nextId) @@ @,
                    !.nextId = @ + 1,
                    !.written = Append(@, Cmd("vkCreateImageView", st.nextId, 0)),
                    !.freeCallbacks =
                        Append(@, <<[op |-> "VkDestroyImageView", obj |-> st.nextId]>>)]

\* addStoreJob: the output view, then the input view, then the job; an error of
\* either view drops the job. fail: 0 none, 1 the output view, 2 the input view.
AddStoreJob(st, job, fail) ==
    LET s1 == GetOrCreateImageView(st, job.output, fail = 1)
        s2 == GetOrCreateImageView(s1, job.input, fail = 2)
    IN  IF ~s1.ok THEN s1
        ELSE IF ~s2.ok THEN s2
        ELSE [s2 EXCEPT !.storeJobs =
                 Append(@, [output |-> s2.views[job.output], input |-> s2.views[job.input],
                            inputIndex |-> job.inputIndex])]

RECURSIVE AddStoreJobs(_, _, _, _)
AddStoreJobs(st, jobs, k, viewFail) ==
    IF k > Len(jobs) THEN st
    ELSE AddStoreJobs(AddStoreJob(st, jobs[k], IF viewFail[1] = k THEN viewFail[2] ELSE 0),
                      jobs, k + 1, viewFail)

ViewFails(n) == {<<0, 0>>} \cup ((1..n) \X (1..2))

\* The jobs of the host path: for every staging image (in the order the map
\* bcs.copies is walked) and every copy collected for it.
HostStoreJobs(dsts, copiesOf, imgOrder) ==
    LET aspectOf(sid) == CHOOSE a \in DOMAIN dsts :
                             \E k \in DOMAIN dsts[a].dstImgs : dsts[a].dstImgs[k].id = sid
        indexOf(sid) == CHOOSE k \in 0..2 :
                             \E a \in DOMAIN dsts : k + 1 \in DOMAIN dsts[a].dstImgs
                                                    /\ dsts[a].dstImgs[k + 1].id = sid
    IN  Flatten([o \in DOMAIN imgOrder |->
            [c \in DOMAIN copiesOf[imgOrder[o]] |->
                [output |-> <<ImgHandle, aspectOf(imgOrder[o]), c>>,
                 input |-> <<imgOrder[o], "COLOR", c>>,
                 inputIndex |-> indexOf(imgOrder[o])]]])

\* The jobs of the device path: walkImageSubresourceRange over the bound levels
DeviceStoreJobs(i, stagingImg, n) ==
    Flatten([a \in DOMAIN i.aspects |->
        [c \in 1..n |-> [output |-> <<ImgHandle, i.aspects[a], c>>,
                         input |-> <<stagingImg, i.aspects[a], c>>,
                         inputIndex |-> 0]]])

StoreStart(st) ==
    [views |-> <<>>, nextId |-> st.nextId, written |-> st.written,
     freeCallbacks |-> st.freeCallbacks, storeJobs |-> <<>>, ok |-> TRUE]

\* ipImageStoreHandler.store for the jobs 1..n in order. errAt: the job at which
\* store returns an error (0 none); commitFailAt: the job whose task fails to
\* commit, which store only logs.
StoreTasks(queue, jobs, errAt, commitFailAt) ==
    LET last == IF errAt = 0 THEN Len(jobs) ELSE errAt - 1
        done == {k \in 1..last : k # commitFailAt}
        pick[k \in 0..last] ==
            IF k = 0 THEN <<>>
            ELSE IF k \in done
                 THEN Append(pick[k - 1],
                             Task("store", queue, jobs[k], "", <<>>, <<>>, 0, <<>>))
                 ELSE pick[k - 1]
    IN  pick[last]

Transition(entries) == Cmd("changeImageSubRangeLayoutAndOwnership", entries, 0)

\* sameLayoutsOfImage(oldStateImgObj): the layouts the subresources of the image
\* have in the old state
CurrentLayouts(i) ==
    SameLayoutsOfImage([sub \in Range(i.aspects) \X {0} \X (0..(i.levels - 1)) |->
                           IF sub[3] = 0 THEN "SHADER_READ_ONLY_OPTIMAL"
                           ELSE "TRANSFER_SRC_OPTIMAL"])

\* imgPreLoadStoreTransitionInfo: an entry per aspect and level of the whole
\* image, from its current layout to GENERAL
PreLoadStoreTransitionInfo(i) ==
    [k \in 1..(Len(i.aspects) * i.levels) |->
        LET aspect == i.aspects[((k - 1) \div i.levels) + 1]
            level == ((k - 1) % i.levels) + 1
        IN  [aspect |-> aspect, level |-> level,
             oldLayout |-> LayoutOf(CurrentLayouts(i), aspect, 0, level - 1),
             newLayout |-> "GENERAL"]]

\* imgPostLoadStoreTransitionInfo: the callback sets the old and the new layout
\* of its entry for the way back and appends the entry to no list
PostLoadStoreTransitionInfo(i) == <<>>

ByImageStoreHost(i, q) ==
    UNION {
        LET st == StagingLoop(i, i.aspects, fails, StagingStart)
            pi == Primeable("store", q.id, st.freeCallbacks, <<>>, <<>>, st.copies)
        IN  IF st.failed
            THEN {CommitFailed(Outcome(NilPrimeable, "CreateStaging",
                                       st.written \o FreeWrites(pi),
                                       FreeTasks(pi, freeOk), st.nextId),
                               ~freeOk, {"free"}) : freeOk \in BOOLEAN}
            ELSE UNION {
                UNION {
                    LET r == Rollout(q.id, order, st.dsts, st.copies,
                                     UseSpecifiedLayout("UNDEFINED"),
                                     UseSpecifiedLayout("GENERAL"), failAt)
                    IN  IF r.failed
                        THEN {CommitFailed(
                                  CommitFailed(Outcome(NilPrimeable, "Rollout",
                                                       st.written \o FreeWrites(pi),
                                                       r.tasks \o FreeTasks(pi, freeOk),
                                                       st.nextId),
                                               r.commitFailed, {"rolloutBufCopies"}),
                                  ~freeOk, {"free"})
                              : freeOk \in BOOLEAN}
                        ELSE {LET jobs == HostStoreJobs(st.dsts, st.copies, imgOrder)
                                  sj == AddStoreJobs(StoreStart(st), jobs, 1, viewFail)
                              IN  Outcome(Primeable("store", q.id, sj.freeCallbacks,
                                                    sj.storeJobs, <<>>, st.copies),
                                          "nil", sj.written, r.tasks, sj.nextId)
                              : imgOrder \in Orders(DOMAIN st.copies),
                                viewFail \in ViewFails(Len(i.aspects) * collected)}
                    : failAt \in 0..RolloutLen(q.id, order, st.dsts, st.copies)}
                : order \in Orders(Range(i.aspects))}
        : fails \in StagingFails(i)}

ByImageStoreDevice(i, q) ==
    UNION {
        LET cs == CreateSameStagingImage(nextId, stagingFail)
            st == [written |-> cs.written, nextId |-> cs.nextId, freeCallbacks |-> <<cs.free>>]
        IN  IF cs.failed
            THEN {Outcome(NilPrimeable, "CreateStaging", cs.written, <<>>, cs.nextId)}
            ELSE UNION {
                LET jobs == DeviceStoreJobs(i, cs.stagingImg, collected)
                    sj == AddStoreJobs(StoreStart(st), jobs, 1, viewFail)
                    pre == Transition(PreLoadStoreTransitionInfo(i))
                    \* the inverse jobs: input and output swapped
                    inv == [k \in DOMAIN sj.storeJobs |->
                               [output |-> sj.storeJobs[k].input,
                                input |-> sj.storeJobs[k].output,
                                inputIndex |-> sj.storeJobs[k].inputIndex]]
                IN  {IF errAt # 0
                     THEN CommitFailed(
                              Outcome(NilPrimeable, "Store", Append(sj.written, pre),
                                      StoreTasks(q.id, inv, errAt, commitFailAt), sj.nextId),
                              commitFailAt \in 1..(errAt - 1), {"store"})
                     ELSE CommitFailed(
                              Outcome(Primeable("store", q.id, sj.freeCallbacks, sj.storeJobs,
                                                <<>>, <<>>),
                                      "nil", sj.written
                                          \o <<pre, Transition(PostLoadStoreTransitionInfo(i))>>,
                                      StoreTasks(q.id, inv, 0, commitFailAt), sj.nextId),
                              commitFailAt # 0, {"store"})
                     : errAt \in 0..Len(sj.storeJobs), commitFailAt \in 0..Len(sj.storeJobs)}
                : viewFail \in ViewFails(Len(i.aspects) * collected)}
        : stagingFail \in {-1, 0, 1}}

ByImageStoreOutcomes(i, fromHost) ==
    UNION {IF q = NilQueue
           THEN {Outcome(NilPrimeable, "NilQueue", <<>>, <<>>, nextId)}
           ELSE IF ~q.inNew
           THEN {Outcome(NilPrimeable, "QueueNotInNewState", <<>>, <<>>, nextId)}
           ELSE IF fromHost THEN ByImageStoreHost(i, q)
           ELSE ByImageStoreDevice(i, q)
           : q \in GetQueueForPriming({"COMPUTE"})}

\* Fallback instead of a hard error: without a graphics queue an image with
\* STORAGE usage is handed to the image-store branch.
NewPrimeableImageDataWithFallBack(i, fromHost) ==
    IF PrimeByCopy(i) THEN ByCopyOutcomes(i, fromHost)
    ELSE IF /\ PrimeByRendering(i)
            /\ ~(fromHost /\ GetQueueForPriming({"GRAPHICS"}) = {NilQueue}
                          /\ "STORAGE" \in i.usage)
         THEN ByRenderingOutcomes(i, fromHost)
    ELSE IF "STORAGE" \in i.usage THEN ByImageStoreOutcomes(i, fromHost)
    ELSE IF PrimeByPreinitialization(i) THEN ByPreinitializationOutcomes(i, fromHost)
    ELSE {Outcome(NilPrimeable, "NoWay", <<>>, <<>>, nextId)}

\* newPrimeableImageData: the outcomes of the branch of the first condition that
\* holds, or the error of the last line.
NewPrimeableImageDataOutcomes(i, fromHost) ==
    IF PrimeByCopy(i) THEN ByCopyOutcomes(i, fromHost)
    ELSE IF PrimeByRendering(i) THEN ByRenderingOutcomes(i, fromHost)
    ELSE IF PrimeByImageStore(i) THEN ByImageStoreOutcomes(i, fromHost)
    ELSE IF PrimeByPreinitialization(i) THEN ByPreinitializationOutcomes(i, fromHost)
    ELSE {Outcome(NilPrimeable, "NoWay", <<>>, <<>>, nextId)}

\* ------------------------------------------------------------------ selector actions

StencilIdle ==
    /\ stencilPc = "idle"
    /\ loopVarPerIteration = FALSE
    /\ srcStencil = 0
    /\ storedStencil = 0
    /\ loopI = 0
    /\ recorded = <<>>

NoAddDst == [srcAspect |-> "", dstAspect |-> "", dstImgs |-> <<>>, err |-> "nil"]

RolloutIdle ==
    /\ hJob = [aspects |-> <<>>, srcAspectsToDsts |-> <<>>]
    /\ hCopies = <<>>
    /\ hContent = <<>>
    /\ totalSize = 0
    /\ collects = 0
    /\ logged = {}
    /\ srcLayout = UseSpecifiedLayout("UNDEFINED")
    /\ dstLayout = UseSpecifiedLayout("UNDEFINED")
    /\ rolloutPc = "idle"
    /\ dstOrder = <<>>
    /\ dstPos = <<0, 0>>
    /\ notProcessedCopies = <<>>
    /\ committed = <<>>
    /\ rolloutErr = "nil"
    /\ primeErr = "nil"
    /\ addDstCall = NoAddDst

NoCall == [call |-> "none", job |-> <<>>, err |-> "nil", renderErrs |-> <<>>, created |-> 0]

HandlersIdle ==
    /\ caches = <<>>
    /\ hWritten = <<>>
    /\ hDestroyed = {}
    /\ hNextId = 1
    /\ calls = 0
    /\ lastCall = NoCall
    /\ lastTasks = <<>>
    /\ hPc = "idle"

Threads == {1, 2}

ThreadsIdle ==
    /\ tPc = [t \in Threads |-> "idle"]
    /\ tJobs = [t \in Threads |-> <<>>]
    /\ dsWrittenFor = <<>>
    /\ submitted = <<>>
    /\ renderTaskCommitLock = [t \in Threads |-> FALSE]

CopyDataIdle ==
    /\ cdIn = <<>>
    /\ cdOut = <<>>

InitSelector ==
    /\ img \in Images
    /\ fromHostData \in BOOLEAN
    /\ queues \in SUBSET QueuePool
    /\ collected \in 0..MaxSubres
    /\ collected <= img.levels
    /\ pc = "start"
    /\ strategy = "none"
    /\ primeable = NilPrimeable
    /\ err = "nil"
    /\ written = <<>>
    /\ tasks = <<>>
    /\ executed = {}
    /\ nextId = ImgHandle + 1
    /\ frees = 0
    /\ commitErrs = {}
    /\ primeCalls = <<>>
    /\ RolloutIdle
    /\ StencilIdle
    /\ HandlersIdle
    /\ ThreadsIdle
    /\ CopyDataIdle

NewPrimeableImageData ==
    /\ pc = "start"
    /\ \E o \in NewPrimeableImageDataOutcomes(img, fromHostData) :
          /\ primeable' = o.primeable
          /\ err' = o.err
          /\ written' = written \o o.written
          /\ tasks' = tasks \o o.tasks
          /\ nextId' = o.nextId
          /\ pc' = IF o.err = "nil" THEN "built" ELSE "failed"
          /\ commitErrs' = {[call |-> "newPrimeableImageData", step |-> st] : st \in o.commitErrs}
    /\ strategy' = MatchedStrategy(img)
    /\ UNCHANGED <<img, fromHostData, queues, collected, executed, frees, primeCalls>>
    /\ UNCHANGED <<rollVars, stVars, hdlVars, thrVars, cdVars>>

\* free() of the returned primeable; the by-copy and by-preinitialization variants
\* hold nothing to free.
Free ==
    /\ pc = "built"
    /\ frees < MaxFree
    /\ frees' = frees + 1
    /\ IF primeable.kind \in {"render", "store"}
       THEN \E commitOk \in BOOLEAN :
               /\ written' = written \o FreeWrites(primeable)
               /\ tasks' = tasks \o FreeTasks(primeable, commitOk)
               /\ primeable' = [primeable EXCEPT
                                  !.freeCallbacks = FreeCallbacksAfterFree(primeable)]
               /\ commitErrs' = IF commitOk THEN commitErrs
                                ELSE commitErrs \cup {[call |-> "free", step |-> "free"]}
       ELSE UNCHANGED <<written, tasks, primeable, commitErrs>>
    /\ UNCHANGED <<img, fromHostData, queues, collected, pc, strategy, err, executed, nextId,
                   primeCalls>>
    /\ UNCHANGED <<rollVars, stVars, hdlVars, thrVars, cdVars>>

\* The dstLayout oracles a caller of prime passes
PrimeDstLayouts == UNION {{o[1], o[2]} : o \in LayoutOracles}

\* The (aspect, level) pairs walkImageSubresourceRange yields over the bound
\* ranges: for each aspect in bit order the levels that have data (one layer).
BoundSubresources(i, n) ==
    Flatten([a \in DOMAIN i.aspects |-> [l \in 1..n |-> <<i.aspects[a], l>>]])

\* transitionInfo of ipPrimeableByPreinitialization.prime
PreinitializationTransitionInfo(subs, dst) ==
    [k \in DOMAIN subs |->
        [aspect |-> subs[k][1], level |-> subs[k][2], oldLayout |-> "PREINITIALIZED",
         newLayout |-> LayoutOf(dst, subs[k][1], 0, subs[k][2] - 1)]]

\* A prime that unmaps the memory before it writes and flushes the data
\* A command on a range of the memory of the image: offset from the start of
\* the memory object, and size
RangeCmd(op, obj, offset, size) ==
    [op |-> op, obj |-> obj, by |-> 0, offset |-> offset, size |-> size]

\* planeMemRequirements.Size(): the levels of every aspect, one after the other
BoundSize(i) == Len(i.aspects) * i.levels * LevelBytes

\* linearLayout.Offset() of the k-th subresource of BoundSubresources(i, n)
LinearOffset(i, n, k) == (((k - 1) \div n) * i.levels + ((k - 1) % n)) * LevelBytes

PreinitializationPrimeUnmapsFirst(i, n, dst, boundOffset) ==
    LET subs == BoundSubresources(i, n)
    IN  <<RangeCmd("VkMapMemory", ImgHandle, boundOffset, BoundSize(i)),
          Cmd("VkUnmapMemory", ImgHandle, 0)>>
            \o [k \in DOMAIN subs |->
                   RangeCmd("ReadDataAt", subs[k], boundOffset + LinearOffset(i, n, k),
                            LevelBytes)]
            \o <<RangeCmd("VkFlushMappedMemoryRanges", ImgHandle, 0, BoundSize(i)),
                 Transition(PreinitializationTransitionInfo(subs, dst))>>

\* What ipPrimeableByPreinitialization.prime writes once both image objects are
\* found: the memory is named by the image it is bound to. The memory is mapped
\* from the offset the image is bound at; the data of a subresource is put at
\* its linear offset from the mapped pointer; the flush names the offset 0.
PreinitializationPrimeWrites(i, n, dst, boundOffset) ==
    LET subs == BoundSubresources(i, n)
    IN  <<RangeCmd("VkMapMemory", ImgHandle, boundOffset, BoundSize(i))>>
            \o [k \in DOMAIN subs |->
                   RangeCmd("ReadDataAt", subs[k], boundOffset + LinearOffset(i, n, k),
                            LevelBytes)]
            \o <<RangeCmd("VkFlushMappedMemoryRanges", ImgHandle, 0, BoundSize(i)),
                 Cmd("VkUnmapMemory", ImgHandle, 0),
                 Transition(PreinitializationTransitionInfo(subs, dst))>>

\* oldImgPlaneMemInfo.BoundMemoryOffset(): where in its memory the image is bound
BoundMemoryOffsets == {0, BufferAlignment}

\* ipPrimeableByPreinitialization.prime(srcLayout, dstLayout); it returns an error
\* at once when the image is missing in the old or in the new state.
PreinitializationPrime ==
    /\ pc = "built"
    /\ primeable.kind = "preinit"
    /\ Len(primeCalls) < MaxPrime
    /\ \E dst \in PrimeDstLayouts, nilImage \in BOOLEAN, boundOffset \in BoundMemoryOffsets :
          /\ primeCalls' = Append(primeCalls,
                                  [dstLayout |-> dst,
                                   err |-> IF nilImage THEN "NilImage" ELSE "nil"])
          /\ written' = IF nilImage THEN written
                        ELSE written \o PreinitializationPrimeWrites(img, collected, dst,
                                                                     boundOffset)
    /\ UNCHANGED <<img, fromHostData, queues, collected, pc, strategy, primeable, err,
                   tasks, executed, nextId, frees, commitErrs>>
    /\ UNCHANGED <<rollVars, stVars, hdlVars, thrVars, cdVars>>

\* transitionInfo of ipPrimeableByImageStore.prime: an entry per aspect and
\* level of the whole image (one layer), in the order of walkImageSubresourceRange
ImageStoreTransitionInfo(i, old, new) ==
    LET subs == BoundSubresources(i, i.levels)
    IN  [k \in DOMAIN subs |->
            [aspect |-> subs[k][1], level |-> subs[k][2],
             oldLayout |-> LayoutOf(old, subs[k][1], 0, subs[k][2] - 1),
             newLayout |-> LayoutOf(new, subs[k][1], 0, subs[k][2] - 1)]]

\* A prime that returns at the first store() that fails, before the transition
\* to the final layouts
ImageStorePrimeStepsStopAtError(i, jobs, o, fail) ==
    LET last == IF fail[1] = 0 THEN Len(jobs) ELSE fail[1]
    IN  <<Transition(ImageStoreTransitionInfo(i, o[1], UseSpecifiedLayout("GENERAL")))>>
            \o [k \in 1..last |->
                   Cmd("store", jobs[k], IF fail[1] = k THEN fail[2] ELSE "nil")]
            \o (IF fail[1] = 0
                THEN <<Transition(ImageStoreTransitionInfo(
                                      i, UseSpecifiedLayout("GENERAL"), o[2]))>>
                ELSE <<>>)

\* What ipPrimeableByImageStore.prime does, in order: the transition to GENERAL,
\* store() for every job (with its result), the transition to the final layouts
ImageStorePrimeSteps(i, jobs, o, fail) ==
    <<Transition(ImageStoreTransitionInfo(i, o[1], UseSpecifiedLayout("GENERAL")))>>
        \o [k \in DOMAIN jobs |->
               Cmd("store", jobs[k], IF fail[1] = k THEN fail[2] ELSE "nil")]
        \o <<Transition(ImageStoreTransitionInfo(i, UseSpecifiedLayout("GENERAL"), o[2]))>>

\* ipPrimeableByImageStore.prime(srcLayout, dstLayout): the transition to
\* GENERAL, store() for every job, the transition to the final layouts. An
\* error of store() is logged and the loop goes on; prime returns nil. `fail`
\* names the job whose store() returns an error ("err") or whose task fails to
\* commit ("commit"), <<0, "">> for none.
ImageStorePrime ==
    /\ pc = "built"
    /\ primeable.kind = "store"
    /\ Len(primeCalls) < MaxStorePrime
    /\ \E o \in LayoutOracles, nilImage \in BOOLEAN,
          fail \in {<<0, "">>} \cup ((DOMAIN primeable.storeJobs) \X {"err", "commit"}) :
          LET jobs == primeable.storeJobs
              steps == ImageStorePrimeSteps(img, jobs, o, fail)
          IN  /\ primeCalls' = Append(primeCalls,
                                      [srcLayout |-> o[1], dstLayout |-> o[2],
                                       err |-> IF nilImage THEN "NilImage" ELSE "nil",
                                       steps |-> IF nilImage THEN <<>> ELSE steps])
              /\ written' = IF nilImage THEN written
                            ELSE written \o SelectSeq(steps, LAMBDA c : c.op # "store")
              /\ tasks' = IF nilImage THEN tasks
                          ELSE tasks \o Flatten([k \in 1..(Len(steps) - 2) |->
                                   IF steps[k + 1].op = "store" /\ steps[k + 1].by = "nil"
                                   THEN <<Task("store", primeable.queue, steps[k + 1].obj,
                                               "", <<>>, <<>>, 0, <<>>)>>
                                   ELSE <<>>])
              /\ commitErrs' = IF ~nilImage /\ fail[2] = "commit"
                               THEN commitErrs \cup {[call |-> "prime", step |-> "store"]}
                               ELSE commitErrs
    /\ UNCHANGED <<img, fromHostData, queues, collected, pc, strategy, primeable, err,
                   executed, nextId, frees>>
    /\ UNCHANGED <<rollVars, stVars, hdlVars, thrVars, cdVars>>

\* A queue executes its tasks in the order of their commits; the callbacks deferred
\* on a task run when it has executed.
CanExecute(k) ==
    /\ k \in DOMAIN tasks
    /\ k \notin executed
    /\ \A j \in 1..(k - 1) : tasks[j].queue = tasks[k].queue => j \in executed

ExecuteTask ==
    /\ \E k \in DOMAIN tasks :
          /\ CanExecute(k)
          /\ executed' = executed \cup {k}
          /\ written' = written \o Stamp(tasks[k].deferred, k)
    /\ UNCHANGED <<img, fromHostData, queues, collected, pc, strategy, primeable, err,
                   tasks, nextId, frees, commitErrs, primeCalls>>
    /\ UNCHANGED <<rollVars, stVars, hdlVars, thrVars, cdVars>>

NextSelector ==
    NewPrimeableImageData \/ Free \/ ExecuteTask \/ PreinitializationPrime

SpecSelector == InitSelector /\ [][NextSelector]_vars

\* The by-image-store variant on its own: the images that are given it, built
\* from host or device data, and then primed.
InitImageStore ==
    /\ InitSelector
    /\ MatchedStrategy(img) = "store"
    /\ queues = QueuePool

NextImageStore ==
    NewPrimeableImageData \/ ImageStorePrime

SpecImageStore == InitImageStore /\ [][NextImageStore]_vars

\* ================================================================== claims: the selector

DepthStencilAspect(i) == Range(i.aspects) \cap {"DEPTH", "STENCIL"} # {}

\* The queue each strategy asks for
QueueFlagsOf(s) ==
    IF s = "render" THEN {"GRAPHICS"} ELSE IF s = "store" THEN {"COMPUTE"} ELSE AnyQueueFlags

\* Every strategy finds a queue, and one that exists in the new state
SuitableQueue ==
    \A s \in {"copy", "render", "store", "preinit"} :
        \A q \in GetQueueForPriming(QueueFlagsOf(s)) : q # NilQueue /\ q.inNew

\* The decision order as the specification words it: "not depth/stencil" is said
\* of the image, that is of its aspects.
SpecifiedChoice(i) ==
    IF "TRANSFER_DST" \in i.usage /\ ~DepthStencilAspect(i) THEN "copy"
    ELSE IF i.usage \cap {"COLOR_ATTACHMENT", "DEPTH_STENCIL_ATTACHMENT"} # {} THEN "render"
    ELSE IF "STORAGE" \in i.usage THEN "store"
    ELSE IF i.tiling = "LINEAR" /\ i.initialLayout = "PREINITIALIZED" THEN "preinit"
    ELSE "nil"

\* C1: with fromHostData = true and a suitable queue, newPrimeableImageData returns
\* the variant of the first strategy that matches in the specified order (by-copy
\* for TRANSFER_DST on an image that is not depth/stencil, then by-rendering, then
\* by-image-store, then by-preinitialization, else nil with an error), and returns
\* either a primeable or an error, never both and never neither.
C1_FirstMatchOutcome ==
    (pc # "start" /\ fromHostData /\ SuitableQueue) =>
        /\ primeable.kind = SpecifiedChoice(img)
        /\ (primeable.kind = "nil") <=> (err # "nil")

C3_DepthStencilNeverCopy ==
    (pc # "start" /\ DepthStencilAspect(img)) => primeable.kind # "copy"

\* C4: when the strategy that matches first gets the nil queue, the call returns
\* the nil-queue error and no primeable, and has created no staging image, no view
\* and no task: a later strategy is not tried.
C4_NilQueueIsHardError ==
    (/\ pc # "start"
     /\ strategy # "none"
     /\ fromHostData \/ strategy = "store"
     /\ GetQueueForPriming(QueueFlagsOf(strategy)) = {NilQueue}) =>
        /\ pc = "failed" /\ err = "NilQueue" /\ primeable = NilPrimeable
        /\ written = <<>> /\ tasks = <<>> /\ nextId = ImgHandle + 1

\* The by-rendering strategy finds no graphics queue although the image also has
\* STORAGE usage and a compute queue exists.
C4_Witness ==
    /\ pc = "failed" /\ err = "NilQueue" /\ strategy = "render" /\ fromHostData
    /\ "STORAGE" \in img.usage
    /\ GetQueueForPriming({"COMPUTE"}) # {NilQueue}

\* C5: with fromHostData = false, every image that matches one of the four
\* strategies (and finds its queue) gets a primeable, not an error.
C5_DeviceDataIsBuilt ==
    (pc # "start" /\ ~fromHostData /\ SpecifiedChoice(img) # "nil" /\ SuitableQueue) =>
        (primeable.kind # "nil" /\ err = "nil")

\* C10: free() of the by-rendering and by-image-store variants writes no destroy
\* command when it is called, also when newPrimeableImageData calls it before
\* returning an error; a destroy of a staging image, memory or view is written only
\* by the callback deferred on a task of free() committed on the priming queue, and
\* only when every task committed before it on that queue has executed.
C10_DestroysAreDeferred ==
    /\ [](\A c \in DOMAIN written :
              written[c].op \in DestroyOps =>
                  /\ written[c].by \in DOMAIN tasks
                  /\ written[c].by \in executed
                  /\ tasks[written[c].by].kind = "free"
                  /\ \A j \in 1..written[c].by :
                        /\ tasks[j].queue = tasks[written[c].by].queue
                        /\ j \in executed)
    /\ [][(frees' # frees \/ pc' # pc) =>
              \A c \in DOMAIN written' : written'[c].op \notin DestroyOps
                                            \/ c \in DOMAIN written]_vars

\* A primeable was freed after its staging copies were committed, and the
\* destroys of its staging image have been written.
C10_Witness ==
    /\ pc = "built" /\ frees >= 1 /\ primeable.kind \in {"render", "store"}
    /\ Len(tasks) >= 4
    /\ \E c \in DOMAIN written : written[c].op = "VkDestroyImage"
    /\ \E c \in DOMAIN written : written[c].op = "VkFreeMemory"

\* The commands written with the operation and object of a cleanup callback
WrittenBy(cb) == {c \in DOMAIN written : written[c].op = cb.op /\ written[c].obj = cb.obj}

\* C11: over any number of free() calls on a by-rendering or by-image-store
\* primeable, a cleanup callback runs at most once (no destroy is written twice);
\* the first free() hands the whole cleanup list to its deferred task and leaves
\* the list empty; and every callback of a free() task that has executed has run
\* exactly once.
C11_CleanupAtMostOnce ==
    /\ [](\A c1, c2 \in DOMAIN written :
              (written[c1].op \in DestroyOps /\ c1 # c2) =>
                  <<written[c1].op, written[c1].obj>> # <<written[c2].op, written[c2].obj>>)
    /\ []((pc = "built" /\ frees >= 1) => primeable.freeCallbacks = <<>>)
    /\ [](\A k \in executed :
              \A d \in DOMAIN tasks[k].deferred :
                  Cardinality(WrittenBy(tasks[k].deferred[d])) = 1)
    /\ [][(frees' = frees + 1 /\ Len(tasks') > Len(tasks)) =>
              tasks'[Len(tasks')].deferred = Flatten(primeable.freeCallbacks)]_vars

\* free() was called twice on a primeable that holds staging images, both of
\* its tasks have executed, and the destroys are written.
C11_Witness ==
    /\ pc = "built" /\ frees = 2 /\ primeable.kind \in {"render", "store"}
    /\ Cardinality({k \in executed : tasks[k].kind = "free"}) = 2
    /\ \E c \in DOMAIN written : written[c].op = "VkDestroyImage"

\* The destroy command that undoes a create command
DestroyOf(op) ==
    IF op = "vkCreateImage" THEN "VkDestroyImage"
    ELSE IF op = "vkAllocateMemory" THEN "VkFreeMemory"
    ELSE "VkDestroyImageView"

\* A destroy of the object of written[c] is deferred on a committed task
DestroyScheduled(c) ==
    \E k \in DOMAIN tasks : \E d \in DOMAIN tasks[k].deferred :
        /\ tasks[k].deferred[d].op = DestroyOf(written[c].op)
        /\ tasks[k].deferred[d].obj = written[c].obj

\* C12: when newPrimeableImageData has returned an error, a destroy has been
\* scheduled for every staging image, memory and view it created in that attempt.
C12_FailureFreesStaging ==
    pc = "failed" =>
        \A c \in DOMAIN written :
            written[c].op \in {"vkCreateImage", "vkAllocateMemory", "vkCreateImageView"}
                => DestroyScheduled(c)

\* Whether a call has returned an error to its caller; free() returns nothing.
CallReturnedError(call) ==
    IF call = "newPrimeableImageData" THEN err # "nil" ELSE FALSE

\* C13: a tsk.commit() that returns an error inside a call (the copy rollout,
\* the dispatch of store, the task of a deferred free) makes that call return an
\* error to its caller.
C13_CommitFailureReachesCaller ==
    \A ce \in commitErrs : CallReturnedError(ce.call)

\* The prime() calls that did not return an error
OkPrimes == SelectSeq(primeCalls, LAMBDA call : call.err = "nil")

\* The commands the p-th of them wrote, when each wrote n + 4 commands
PrimeBlock(p, n) == SubSeq(written, (p - 1) * (n + 4) + 1, p * (n + 4))

\* C15: every ipPrimeableByPreinitialization.prime that succeeds writes, in this
\* order, one VkMapMemory, the data of every bound subresource, one
\* VkFlushMappedMemoryRanges, one VkUnmapMemory of the mapped memory, and one
\* layout-transition batch that moves exactly those subresources from
\* PREINITIALIZED to dstLayout.layoutOf; nothing else is written, and no staging
\* image, view or task is created.
C15_PreinitializationOrder ==
    primeable.kind = "preinit" =>
        LET subs == BoundSubresources(img, collected)
            n == Len(subs)
        IN  /\ tasks = <<>> /\ nextId = ImgHandle + 1
            /\ Len(written) = Len(OkPrimes) * (n + 4)
            /\ \A p \in DOMAIN OkPrimes :
                  LET b == PrimeBlock(p, n)
                  IN  /\ b[1].op = "VkMapMemory"
                      /\ \A k \in 1..n : b[1 + k].op = "ReadDataAt" /\ b[1 + k].obj = subs[k]
                      /\ b[n + 2].op = "VkFlushMappedMemoryRanges"
                      /\ b[n + 3].op = "VkUnmapMemory" /\ b[n + 3].obj = b[1].obj
                      /\ b[n + 4].op = "changeImageSubRangeLayoutAndOwnership"
                      /\ Len(b[n + 4].obj) = n
                      /\ \A k \in 1..n :
                            LET e == b[n + 4].obj[k]
                            IN  /\ <<e.aspect, e.level>> = subs[k]
                                /\ e.oldLayout = "PREINITIALIZED"
                                /\ e.newLayout = LayoutOf(OkPrimes[p].dstLayout, e.aspect,
                                                          0, e.level - 1)

\* A depth/stencil image with two bound levels was primed twice, once to the
\* layouts of an image.
C15_Witness ==
    /\ primeable.kind = "preinit" /\ Len(OkPrimes) = 2 /\ collected = 2
    /\ Len(img.aspects) = 2
    /\ OkPrimes[1].dstLayout.kind = "image"
    /\ Len(written) = 16

\* ================================================================== the copy session

SelectorIdle ==
    /\ img = [usage |-> {}, aspects |-> <<"COLOR">>, tiling |-> "OPTIMAL",
              initialLayout |-> "UNDEFINED", elemSize |-> 4, levels |-> 1]
    /\ fromHostData = TRUE
    /\ queues = {}
    /\ collected = 0
    /\ pc = "idle"
    /\ strategy = "none"
    /\ primeable = NilPrimeable
    /\ err = "nil"
    /\ written = <<>>
    /\ tasks = <<>>
    /\ executed = {}
    /\ nextId = ImgHandle + 1
    /\ frees = 0
    /\ commitErrs = {}
    /\ primeCalls = <<>>

DstImg(id, layers, combined) ==
    [id |-> id, layers |-> layers, levels |-> MaxSubres, combined |-> combined]

\* The jobs newPrimeableImageData builds with addDst: the primed image itself for
\* each of its aspects (by copy), or the staging images of each aspect with COLOR
\* as their aspect (by rendering, by image store).
Jobs ==
    { [aspects |-> <<"COLOR">>,
       srcAspectsToDsts |->
           ("COLOR" :> [dstImgs |-> <<DstImg(ImgHandle, 2, FALSE)>>, dstAspect |-> "COLOR"])],
      [aspects |-> <<"DEPTH", "STENCIL">>,
       srcAspectsToDsts |->
           ("DEPTH" :> [dstImgs |-> <<DstImg(ImgHandle, 1, TRUE)>>, dstAspect |-> "DEPTH"])
           @@ ("STENCIL" :> [dstImgs |-> <<DstImg(ImgHandle, 1, TRUE)>>,
                             dstAspect |-> "STENCIL"])],
      [aspects |-> <<"COLOR">>,
       srcAspectsToDsts |->
           ("COLOR" :> [dstImgs |-> <<DstImg(ImgHandle + 1, 1, FALSE),
                                      DstImg(ImgHandle + 2, 1, FALSE)>>,
                        dstAspect |-> "COLOR"])],
      [aspects |-> <<"DEPTH", "STENCIL">>,
       srcAspectsToDsts |->
           ("DEPTH" :> [dstImgs |-> <<DstImg(ImgHandle + 1, 1, FALSE)>>,
                        dstAspect |-> "COLOR"])
           @@ ("STENCIL" :> [dstImgs |-> <<DstImg(ImgHandle + 2, 1, FALSE)>>,
                             dstAspect |-> "COLOR"])] }

\* Sizes of the content of one subresource, against the size of a scratch buffer;
\* getCopyAndData pads every content to a multiple of 8 and bounds none.
ContentSizes ==
    {8, scratchBufferSize \div 2 - 8, scratchBufferSize, scratchBufferSize + 8}

InitRollout ==
    /\ SelectorIdle
    /\ StencilIdle
    /\ HandlersIdle
    /\ ThreadsIdle
    /\ CopyDataIdle
    /\ hJob \in Jobs
    /\ hCopies = [d \in UNION {{dstImg.id : dstImg \in Range(hJob.srcAspectsToDsts[a].dstImgs)}
                                : a \in DOMAIN hJob.srcAspectsToDsts} |-> <<>>]
    /\ hContent = hCopies
    /\ totalSize = 0
    /\ collects = 0
    /\ logged = {}
    /\ \E o \in LayoutOracles : srcLayout = o[1] /\ dstLayout = o[2]
    /\ rolloutPc = "collect"
    /\ dstOrder = <<>>
    /\ dstPos = <<0, 0>>
    /\ notProcessedCopies = <<>>
    /\ committed = <<>>
    /\ rolloutErr = "nil"
    /\ primeErr = "nil"
    /\ addDstCall = NoAddDst

\* The (aspect, dstIndex) pairs one subresource is collected for, in the order of
\* walkImageSubresourceRange and of the loop over dstImgs.
CollectSlots(j) ==
    Flatten([a \in DOMAIN j.aspects |->
                [k \in DOMAIN j.srcAspectsToDsts[j.aspects[a]].dstImgs |-> <<j.aspects[a], k>>]])

\* A callback that gives up at the first error of getCopyAndData
RECURSIVE CollectIntoUntilError(_, _, _, _, _)
CollectIntoUntilError(cp, j, slots, sizeOf, level) ==
    IF slots = <<>> \/ sizeOf[Head(slots)] < 0 THEN cp
    ELSE LET a == Head(slots)[1]
             k == Head(slots)[2]
             dstImg == j.srcAspectsToDsts[a].dstImgs[k]
         IN  CollectIntoUntilError(
                 [cp EXCEPT ![dstImg.id] =
                     Append(@, [id |-> <<a, level, k>>, size |-> sizeOf[Head(slots)]])],
                 j, Tail(slots), sizeOf, level)

\* The body of the callback of collectCopiesFromSubresourceRange for one level;
\* a negative size stands for an error of getCopyAndData, which skips the copy.
RECURSIVE CollectInto(_, _, _, _, _)
CollectInto(cp, j, slots, sizeOf, level) ==
    IF slots = <<>> THEN cp
    ELSE LET a == Head(slots)[1]
             k == Head(slots)[2]
             dstImg == j.srcAspectsToDsts[a].dstImgs[k]
         IN  CollectInto(
                 IF sizeOf[Head(slots)] < 0 THEN cp
                 ELSE [cp EXCEPT ![dstImg.id] =
                          Append(@, [id |-> <<a, level, k>>, size |-> sizeOf[Head(slots)]])],
                 j, Tail(slots), sizeOf, level)

\* A callback that appends a fill info for a getCopyAndData that failed, too
RECURSIVE CollectContentAlways(_, _, _, _, _)
CollectContentAlways(ct, j, slots, sizeOf, level) ==
    IF slots = <<>> THEN ct
    ELSE LET a == Head(slots)[1]
             k == Head(slots)[2]
             dstImg == j.srcAspectsToDsts[a].dstImgs[k]
         IN  CollectContentAlways(
                 [ct EXCEPT ![dstImg.id] =
                     Append(@, [id |-> <<a, level, k>>,
                                size |-> IF sizeOf[Head(slots)] < 0 THEN 0
                                         ELSE sizeOf[Head(slots)]])],
                 j, Tail(slots), sizeOf, level)

\* `h.content[dstImg] = append(h.content[dstImg], bufFillInfo)` of the callback
\* of the two collect functions, over the slots of one subresource
RECURSIVE CollectContent(_, _, _, _, _)
CollectContent(ct, j, slots, sizeOf, level) ==
    IF slots = <<>> THEN ct
    ELSE LET a == Head(slots)[1]
             k == Head(slots)[2]
             dstImg == j.srcAspectsToDsts[a].dstImgs[k]
         IN  CollectContent(
                 IF sizeOf[Head(slots)] < 0 THEN ct
                 ELSE [ct EXCEPT ![dstImg.id] =
                          Append(@, [id |-> <<a, level, k>>, size |-> sizeOf[Head(slots)]])],
                 j, Tail(slots), sizeOf, level)

\* `h.totalSize += bufFillInfo.size()` over the slots of one subresource
RECURSIVE CollectedSize(_, _)
CollectedSize(slots, sizeOf) ==
    IF slots = <<>> THEN 0
    ELSE (IF sizeOf[Head(slots)] < 0 THEN 0 ELSE sizeOf[Head(slots)])
             + CollectedSize(Tail(slots), sizeOf)

\* The region of a sparse block of mip level `level`: the regions of the whole
\* levels are 0..MaxSubres - 1, the blocks are numbered after them
SparseBlock(level) == MaxSubres + level

\* collectCopiesFromSparseImageBindings for an image with one sparse block
\* bound, in mip level `level`: the same callback, on the block
CollectCopiesFromSparseImageBindings ==
    /\ rolloutPc = "collect"
    /\ collects < MaxSubres
    /\ \E level \in 0..(MaxSubres - 1),
          sizeOf \in [Range(CollectSlots(hJob)) -> {8, -1}] :
          /\ hCopies' = CollectInto(hCopies, hJob, CollectSlots(hJob), sizeOf,
                                    SparseBlock(level))
          /\ hContent' = CollectContent(hContent, hJob, CollectSlots(hJob), sizeOf,
                                        SparseBlock(level))
          /\ totalSize' = totalSize + CollectedSize(CollectSlots(hJob), sizeOf)
    /\ collects' = collects + 1
    /\ UNCHANGED <<hJob, logged, srcLayout, dstLayout, rolloutPc, dstOrder, dstPos,
                   notProcessedCopies, committed, rolloutErr, primeErr>>
    /\ UNCHANGED addDstCall
    /\ UNCHANGED <<selVars, stVars, hdlVars, thrVars, cdVars>>

\* collectCopiesFromSubresourceRange for a range of one mip level and all aspects
CollectCopiesFromSubresourceRange ==
    /\ rolloutPc = "collect"
    /\ collects < MaxSubres
    /\ \E sizeOf \in [Range(CollectSlots(hJob)) -> ContentSizes \cup {-1}] :
          /\ hCopies' = CollectInto(hCopies, hJob, CollectSlots(hJob), sizeOf, collects)
          /\ hContent' = CollectContent(hContent, hJob, CollectSlots(hJob), sizeOf, collects)
          /\ totalSize' = totalSize + CollectedSize(CollectSlots(hJob), sizeOf)
          /\ logged' = logged \cup {<<sl[1], collects, sl[2]>> :
                                       sl \in {x \in Range(CollectSlots(hJob)) : sizeOf[x] < 0}}
    /\ collects' = collects + 1
    /\ UNCHANGED <<hJob, srcLayout, dstLayout, rolloutPc, dstOrder, dstPos,
                   notProcessedCopies, committed, rolloutErr, primeErr>>
    /\ UNCHANGED addDstCall
    /\ UNCHANGED <<selVars, stVars, hdlVars, thrVars, cdVars>>

\* A failed commit that is recorded while the session goes on
CommitResultGoingOn(ok, step, nextPc) ==
    [pc |-> nextPc, err |-> IF ok THEN "nil" ELSE step]

\* `if err := tsk.commit(); err != nil { return ... }`: where rolloutBufCopies is
\* after a commit, and what it has returned.
CommitResult(ok, step, nextPc) ==
    IF ok THEN [pc |-> nextPc, err |-> "nil"] ELSE [pc |-> "returned", err |-> step]

\* ipPrimeableByBufferCopy.prime wraps the error of rolloutBufCopies
PrimeError(e) == IF e = "nil" THEN "nil" ELSE "rolling out: " \o e

CurrentDst == hJob.srcAspectsToDsts[dstOrder[dstPos[1]]]

CurrentDstImg == CurrentDst.dstImgs[dstPos[2]]

\* prime calls rolloutBufCopies: the early returns, then the first destination
Prime ==
    /\ rolloutPc = "collect"
    /\ IF NoContent(hCopies)
       THEN /\ rolloutErr' = "no content"
            /\ primeErr' = PrimeError("no content")
            /\ rolloutPc' = "returned"
            /\ UNCHANGED <<dstOrder, dstPos>>
       ELSE /\ dstOrder' \in Orders(DOMAIN hJob.srcAspectsToDsts)
            /\ dstPos' = <<1, 1>>
            /\ rolloutPc' = "pre"
            /\ UNCHANGED <<rolloutErr, primeErr>>
    /\ UNCHANGED <<hJob, hCopies, collects, logged, srcLayout, dstLayout,
                   notProcessedCopies, committed>>
    /\ UNCHANGED <<addDstCall, hContent, totalSize>>
    /\ UNCHANGED <<selVars, stVars, hdlVars, thrVars, cdVars>>

\* The commit of preCopyDstLayoutTransitionTsk
CommitPreCopy ==
    /\ rolloutPc = "pre"
    /\ \E ok \in BOOLEAN :
          LET r == CommitResult(ok, "pre-copy",
                                IF hCopies[CurrentDstImg.id] = <<>> THEN "post" ELSE "batch")
          IN  /\ rolloutPc' = r.pc
              /\ rolloutErr' = r.err
              /\ primeErr' = PrimeError(r.err)
              /\ committed' = IF ok
                              THEN Append(committed,
                                          PreCopyTask(ImgHandle, CurrentDst.dstAspect,
                                                      CurrentDstImg, srcLayout))
                              ELSE committed
              /\ notProcessedCopies' = IF ok THEN hCopies[CurrentDstImg.id]
                                       ELSE notProcessedCopies
    /\ UNCHANGED <<hJob, hCopies, collects, logged, srcLayout, dstLayout, dstOrder, dstPos>>
    /\ UNCHANGED <<addDstCall, hContent, totalSize>>
    /\ UNCHANGED <<selVars, stVars, hdlVars, thrVars, cdVars>>

\* One round of the batching loop and the commit of its task
CommitBatch ==
    /\ rolloutPc = "batch"
    /\ \E ok \in BOOLEAN :
          LET t == CopyBatchTask(ImgHandle, CurrentDst.dstAspect, CurrentDstImg,
                                 notProcessedCopies)
              rest == DropBatch(notProcessedCopies, t)
              r == CommitResult(ok, "copy batch", IF rest = <<>> THEN "post" ELSE "batch")
          IN  /\ rolloutPc' = r.pc
              /\ rolloutErr' = r.err
              /\ primeErr' = PrimeError(r.err)
              /\ committed' = IF ok THEN Append(committed, t) ELSE committed
              /\ notProcessedCopies' = rest
    /\ UNCHANGED <<hJob, hCopies, collects, logged, srcLayout, dstLayout, dstOrder, dstPos>>
    /\ UNCHANGED <<addDstCall, hContent, totalSize>>
    /\ UNCHANGED <<selVars, stVars, hdlVars, thrVars, cdVars>>

\* The commit of postCopyDstLayoutTransitionTsk, then the next destination image
CommitPostCopy ==
    /\ rolloutPc = "post"
    /\ \E ok \in BOOLEAN :
          LET more == dstPos[2] < Len(CurrentDst.dstImgs) \/ dstPos[1] < Len(dstOrder)
              r == CommitResult(ok, "post-copy", IF more THEN "pre" ELSE "returned")
          IN  /\ rolloutPc' = r.pc
              /\ rolloutErr' = r.err
              /\ primeErr' = PrimeError(r.err)
              /\ committed' = IF ok
                              THEN Append(committed,
                                          PostCopyTask(ImgHandle, CurrentDst.dstAspect,
                                                       CurrentDstImg, dstLayout))
                              ELSE committed
              /\ dstPos' = IF ~ok THEN dstPos
                           ELSE IF dstPos[2] < Len(CurrentDst.dstImgs)
                                THEN <<dstPos[1], dstPos[2] + 1>>
                           ELSE IF dstPos[1] < Len(dstOrder) THEN <<dstPos[1] + 1, 1>>
                           ELSE dstPos
    /\ UNCHANGED <<hJob, hCopies, collects, logged, srcLayout, dstLayout, dstOrder,
                   notProcessedCopies>>
    /\ UNCHANGED <<addDstCall, hContent, totalSize>>
    /\ UNCHANGED <<selVars, stVars, hdlVars, thrVars, cdVars>>

NextRollout ==
    \/ CollectCopiesFromSubresourceRange
    \/ Prime
    \/ CommitPreCopy
    \/ CommitBatch
    \/ CommitPostCopy

SpecRollout == InitRollout /\ [][NextRollout]_vars

\* ------------------------------------------------------------------ the copy job

MaxDstImgs == 2     \* destination images of one copy job

\* An addDst that takes the destination aspect of the latest call
AddDstLastWins(job, srcAspect, dstAspect, dstImgs) ==
    LET m == job.srcAspectsToDsts
        old == IF srcAspect \in DOMAIN m THEN m[srcAspect].dstImgs ELSE <<>>
    IN  [job |-> [job EXCEPT !.srcAspectsToDsts =
                     (srcAspect :> [dstImgs |-> old \o dstImgs, dstAspect |-> dstAspect])
                     @@ m],
         err |-> "nil"]

\* ipBufImgCopyJob.addDst: the entry of the source aspect is made on its first
\* call; a call with another destination aspect than the entry's returns an
\* error before the append.
AddDst(job, srcAspect, dstAspect, dstImgs) ==
    LET m == job.srcAspectsToDsts
        m1 == IF srcAspect \in DOMAIN m THEN m
              ELSE (srcAspect :> [dstImgs |-> <<>>, dstAspect |-> dstAspect]) @@ m
    IN  IF m1[srcAspect].dstAspect # dstAspect
        THEN [job |-> [job EXCEPT !.srcAspectsToDsts = m1], err |-> "AspectMismatch"]
        ELSE [job |-> [job EXCEPT !.srcAspectsToDsts =
                          [m1 EXCEPT ![srcAspect].dstImgs = @ \o dstImgs]],
              err |-> "nil"]

\* The destination images of a job, over all its source aspects
DstImgCount(job) ==
    LET m == job.srcAspectsToDsts
        count[as \in SUBSET DOMAIN m] ==
            IF as = {} THEN 0
            ELSE LET a == CHOOSE x \in as : TRUE
                 IN  Len(m[a].dstImgs) + count[as \ {a}]
    IN  count[DOMAIN m]

\* newImagePrimerBufferImageCopyJob: a job without destinations
InitCopyJob ==
    /\ SelectorIdle
    /\ RolloutIdle
    /\ StencilIdle
    /\ HandlersIdle
    /\ ThreadsIdle
    /\ CopyDataIdle

\* One call of job.addDst(ctx, srcAspect, dstAspect, dstImgs...)
AddDstCall ==
    /\ rolloutPc = "idle"
    /\ \E srcAspect \in {"DEPTH", "STENCIL"}, dstAspect \in {"COLOR", "DEPTH", "STENCIL"},
          dstImgs \in {<<>>, <<DstImg(ImgHandle + 1, 1, FALSE)>>,
                       <<DstImg(ImgHandle + 1, 1, FALSE), DstImg(ImgHandle + 2, 1, FALSE)>>} :
          /\ DstImgCount(hJob) + Len(dstImgs) <= MaxDstImgs
          /\ LET r == AddDst(hJob, srcAspect, dstAspect, dstImgs)
             IN  /\ hJob' = r.job
                 /\ addDstCall' = [srcAspect |-> srcAspect, dstAspect |-> dstAspect,
                                   dstImgs |-> dstImgs, err |-> r.err]
    /\ UNCHANGED <<hCopies, collects, logged, srcLayout, dstLayout, rolloutPc, dstOrder,
                   dstPos, notProcessedCopies, committed, rolloutErr, primeErr>>
    /\ UNCHANGED <<hContent, totalSize>>
    /\ UNCHANGED <<selVars, stVars, hdlVars, thrVars, cdVars>>

NextCopyJob == AddDstCall

\* The two collect functions, called in any order on a new session
NextCollect == CollectCopiesFromSubresourceRange \/ CollectCopiesFromSparseImageBindings

SpecCollect == InitRollout /\ [][NextCollect]_vars

SpecCopyJob == InitCopyJob /\ [][NextCopyJob]_vars

\* ================================================================== claims: the copy session

TasksOfImg(d) == SelectSeq(committed, LAMBDA t : t.img = d)

\* The ids of the copy descriptors emitted for image d, batch after batch
EmittedIds(d) ==
    LET batches == SelectSeq(committed, LAMBDA t : t.img = d /\ t.kind = "copy")
    IN  Flatten([k \in DOMAIN batches |->
                    [c \in DOMAIN batches[k].copies |-> batches[k].copies[c].id]])

RolloutSucceeded == rolloutPc = "returned" /\ rolloutErr = "nil"

\* C6: when rolloutBufCopies has returned without error, no copy batch has a
\* running offset that, rounded up to 256, exceeds scratchBufferSize, and for
\* every destination image the descriptors emitted over its batches are the
\* collected descriptors, each once and in collection order.
C6_BatchesBoundedAndExact ==
    RolloutSucceeded =>
        /\ \A k \in DOMAIN committed :
              committed[k].kind = "copy" =>
                  NextMultipleOf(committed[k].bufOffset, BufferAlignment) <= scratchBufferSize
        /\ \A d \in DOMAIN hCopies :
              EmittedIds(d) = [k \in DOMAIN hCopies[d] |-> hCopies[d][k].id]

\* The barriers of a transition task cover every (layer, level) of the image once
BarriersCover(t, dstImg) ==
    /\ Len(t.barriers) = dstImg.layers * dstImg.levels
    /\ {<<t.barriers[b].layer, t.barriers[b].level>> : b \in DOMAIN t.barriers}
           = (0..(dstImg.layers - 1)) \X (0..(dstImg.levels - 1))

DstImgOf(d) ==
    CHOOSE dstImg \in UNION {Range(hJob.srcAspectsToDsts[a].dstImgs)
                                : a \in DOMAIN hJob.srcAspectsToDsts} : dstImg.id = d

\* C7: the tasks committed for a destination image are one pre-copy barrier task
\* (every (layer, level) from srcLayout.layoutOf to TRANSFER_DST_OPTIMAL), then
\* copy batches only, then one post-copy barrier task (the same subresources from
\* TRANSFER_DST_OPTIMAL to dstLayout.layoutOf) as the last one: no batch of the
\* image comes before its pre-copy barrier or after its post-copy barrier.
C7_PreBatchesPost ==
    \A d \in DOMAIN hCopies :
        LET ts == TasksOfImg(d)
        IN  /\ ts # <<>> =>
                  /\ ts[1].kind = "preCopy"
                  /\ BarriersCover(ts[1], DstImgOf(d))
                  /\ \A b \in DOMAIN ts[1].barriers :
                        /\ ts[1].barriers[b].newLayout = "TRANSFER_DST_OPTIMAL"
                        /\ ts[1].barriers[b].oldLayout =
                               LayoutOf(srcLayout, ts[1].aspect, ts[1].barriers[b].layer,
                                        ts[1].barriers[b].level)
            /\ \A k \in 2..Len(ts) :
                  \/ ts[k].kind = "copy"
                  \/ /\ ts[k].kind = "postCopy" /\ k = Len(ts)
                     /\ BarriersCover(ts[k], DstImgOf(d))
                     /\ \A b \in DOMAIN ts[k].barriers :
                           /\ ts[k].barriers[b].oldLayout = "TRANSFER_DST_OPTIMAL"
                           /\ ts[k].barriers[b].newLayout =
                                  LayoutOf(dstLayout, ts[k].aspect, ts[k].barriers[b].layer,
                                           ts[k].barriers[b].level)
            /\ RolloutSucceeded => (Len(ts) >= 2 /\ ts[Len(ts)].kind = "postCopy")

StepOf(p) ==
    IF p = "pre" THEN "pre-copy" ELSE IF p = "batch" THEN "copy batch" ELSE "post-copy"

\* C8: a commit that fails makes rolloutBufCopies return at once with an error
\* that names the step (pre-copy transition, copy batch, post-copy transition);
\* the failed task is not committed and no task is committed after it, and prime
\* returns an error whenever rolloutBufCopies does.
C8_CommitFailureAborts ==
    /\ [](rolloutErr # "nil" => (rolloutPc = "returned" /\ primeErr # "nil"))
    /\ [][/\ rolloutErr' # "nil" => committed' = committed
          /\ (rolloutErr = "nil" /\ rolloutErr' # "nil" /\ rolloutPc # "collect")
                 => rolloutErr' = StepOf(rolloutPc)]_vars

\* The commit of the second task of a session failed while copies were left
C8_Witness ==
    /\ rolloutPc = "returned" /\ rolloutErr = "copy batch"
    /\ primeErr = "rolling out: copy batch"
    /\ Len(committed) = 1
    /\ notProcessedCopies # <<>>

\* The (aspect, level, dstIndex) of every call of getCopyAndData made so far
CollectedPairs ==
    {<<sl[1], level, sl[2]>> : sl \in Range(CollectSlots(hJob)), level \in 0..(collects - 1)}

\* The destination image of a pair
DstImgIdOf(pair) == hJob.srcAspectsToDsts[pair[1]].dstImgs[pair[3]].id

\* How many descriptors h.copies holds for a pair
DescriptorsOf(pair) ==
    Cardinality({k \in DOMAIN hCopies[DstImgIdOf(pair)] :
                    hCopies[DstImgIdOf(pair)][k].id = pair})

StencilPasses == 8

RECURSIVE Pow2(_)
Pow2(n) == IF n = 0 THEN 1 ELSE 2 * Pow2(n - 1)

\* Bit n of the value v (v is below 2^8 wherever this is used)
Bit(v, n) == IF n >= 30 THEN 0 ELSE (v \div Pow2(n)) % 2

\* VK_STENCIL_OP_REPLACE under a write mask, on the 8 bits of a stencil value
StencilReplace(old, reference, writeMask) ==
    LET bit[n \in 0..7] ==
            IF Bit(writeMask, n) = 1 THEN Bit(reference, n) ELSE Bit(old, n)
        sum[n \in 0..8] == IF n = 0 THEN 0 ELSE sum[n - 1] + bit[n - 1] * Pow2(n - 1)
    IN  sum[8]

\* The fragment shader of the stencil pipeline keeps the fragment of a pixel when
\* bit `index` (its push constant) of the staging value is set and discards it
\* otherwise.
StencilShaderKeeps(src, index) == Bit(src, index) = 1

\* What the target may hold before it is primed
StoredBefore == {0, 85, 255}

InitStencil ==
    /\ SelectorIdle
    /\ RolloutIdle
    /\ HandlersIdle
    /\ ThreadsIdle
    /\ CopyDataIdle
    /\ stencilPc = "render"
    /\ loopVarPerIteration \in BOOLEAN
    /\ srcStencil \in 0..255
    /\ storedStencil \in StoredBefore
    /\ loopI = 0
    /\ recorded = <<>>

\* The closure recorded first in an iteration: it reads i when it runs. With one
\* loop variable per iteration it holds the value of its iteration; with one
\* variable for the loop (`shared`) it reads what the loop has left in it.
PushConstantsClosure ==
    [kind |-> "push", shared |-> ~loopVarPerIteration, index |-> loopI,
     writeMask |-> 0, reference |-> 0, clearStencil |-> FALSE]

\* ipRenderDrawInfo of an iteration, built when the iteration runs
DrawInfo ==
    [kind |-> "draw", shared |-> FALSE, index |-> 0,
     writeMask |-> Pow2(loopI), reference |-> Pow2(loopI),
     clearStencil |-> (loopI = 0)]

\* One iteration of the loop of render(); render returns after the last one
RecordPass ==
    /\ stencilPc = "render"
    /\ loopI < StencilPasses
    /\ recorded' = recorded \o <<PushConstantsClosure, DrawInfo>>
    /\ loopI' = loopI + 1
    /\ stencilPc' = IF loopI + 1 < StencilPasses THEN "render" ELSE "recorded"
    /\ UNCHANGED <<loopVarPerIteration, srcStencil, storedStencil>>
    /\ UNCHANGED <<selVars, rollVars, hdlVars, thrVars, cdVars>>

\* The recorded commands run in order: st is <<stored value, push constant>>
RECURSIVE RunCommands(_, _, _)
RunCommands(cmds, st, src) ==
    IF cmds = <<>> THEN st[1]
    ELSE LET cmd == Head(cmds)
         IN  IF cmd.kind = "push"
             THEN RunCommands(Tail(cmds),
                              <<st[1], IF cmd.shared THEN loopI ELSE cmd.index>>, src)
             ELSE LET cleared == IF cmd.clearStencil THEN 0 ELSE st[1]
                      drawn == IF StencilShaderKeeps(src, st[2])
                               THEN StencilReplace(cleared, cmd.reference, cmd.writeMask)
                               ELSE cleared
                  IN  RunCommands(Tail(cmds), <<drawn, st[2]>>, src)

\* renderTsk.commit() in prime: the closures run and the queue executes the
\* command buffer; a failed commit leaves the target as it was.
CommitRenderTask ==
    /\ stencilPc = "recorded"
    /\ \E ok \in BOOLEAN :
          /\ stencilPc' = IF ok THEN "committed" ELSE "failed"
          /\ storedStencil' = IF ok THEN RunCommands(recorded, <<storedStencil, 0>>, srcStencil)
                              ELSE storedStencil
    /\ UNCHANGED <<loopVarPerIteration, srcStencil, loopI, recorded>>
    /\ UNCHANGED <<selVars, rollVars, hdlVars, thrVars, cdVars>>

NextStencil == RecordPass \/ CommitRenderTask

SpecStencil == InitStencil /\ [][NextStencil]_vars

\* ================================================================== claims: stencil rendering

\* C9: when the task of a stencil render has been committed, the stored stencil
\* value is the staging value V, for every V in 0..255 and whatever the target
\* held before: pass 0 clears, and pass i replaces bit i on the pixels whose
\* source bit i is set.
C9_StencilEqualsSource ==
    stencilPc = "committed" => storedStencil = srcStencil

\* ================================================================== the handlers

\* The handlers an imagePrimer owns (newImagePrimer): the render handler "rh"
\* and the image-store handler "sh", on one state builder.

specMaxComputeGroupCountX == 65536
specMaxComputeGroupCountY == 65536
specMaxComputeGroupCountZ == 65536

\* ipImageStoreJob: device of the output view, format of the views (one the
\* SPIR-V generator accepts and one it rejects), whether the image types of
\* input and output differ, the dispatch extent
StoreJobs ==
    [dev : {1, 2}, fmt : {"R8G8B8A8_UNORM", "UNSUPPORTED"}, typeMismatch : BOOLEAN,
     extent : {<<1, 1, 1>>, <<65536, 65536, 65536>>, <<65537, 1, 1>>, <<1, 65537, 1>>,
               <<1, 1, 65537>>}]

\* What prime() of an ipPrimeableByRendering makes its render jobs from: the
\* device, format and type of the image, and the aspect rendered
RenderImages ==
    [dev : {1, 2}, fmt : {"R8G8B8A8_UNORM", "UNSUPPORTED"},
     aspect : {"COLOR", "DEPTH", "STENCIL"}, imageType : {"2D", "3D"},
     createFail : {0}, inputs : {<<"GENERAL">>}, finalLayout : {"GENERAL"},
     combined : {FALSE}, level : {0}, levels : {MaxSubres},
     stateLayout : {"UNDEFINED"}, initialLayout : {"UNDEFINED"}]

\* The objects render() creates for one call, in the order it creates them; an
\* ipRenderJob names in createFail the one whose create returns a nil object
\* (0: none)
TransientObjects ==
    <<"descPool", "descSet", "inputView", "outputView", "renderPass", "framebuffer">>

\* ipRenderJob of a single render() call: as RenderImages, with the final
\* layout of each input attachment and of the render target
RenderCalls ==
    [dev : {1}, fmt : {"R8G8B8A8_UNORM", "UNSUPPORTED"},
     aspect : {"COLOR", "DEPTH", "STENCIL"}, imageType : {"2D", "3D"},
     createFail : 0..Len(TransientObjects),
     inputs : UNION {[1..n -> {"SHADER_READ_ONLY_OPTIMAL", "GENERAL"}] : n \in 1..2},
     finalLayout : {"GENERAL"},
     combined : {FALSE}, level : {0}, levels : {1},
     stateLayout : {"UNDEFINED"}, initialLayout : {"UNDEFINED"}]

\* A key of one of the handlers' maps
CacheKey(h, kind, dev, fmt, aspect) ==
    [h |-> h, kind |-> kind, dev |-> dev, fmt |-> fmt, aspect |-> aspect]

\* A creator that makes a new object on every call
GetOrCreateAlways(st, key, op) ==
    [caches  |-> (key :> st.nextId) @@ [k \in DOMAIN st.caches \ {key} |-> st.caches[k]],
     written |-> Append(st.written, Cmd(op, st.nextId, 0)),
     nextId  |-> st.nextId + 1]

\* The getOrCreate* functions and the `if _, ok := h.m[dev]; !ok` blocks of
\* store(): look the key up, and only on a miss write the create command and
\* put the new object in the map.
GetOrCreate(st, key, op) ==
    IF key \in DOMAIN st.caches
    THEN st
    ELSE [caches  |-> (key :> st.nextId) @@ st.caches,
          written |-> Append(st.written, Cmd(op, st.nextId, 0)),
          nextId  |-> st.nextId + 1]

\* createDescriptorPool, allocDescriptorSet, createImageView, createRenderPass,
\* createFramebuffer of the render handler: no map, a new object each call
CreateUncached(st, op) ==
    [st EXCEPT !.written = Append(@, Cmd(op, st.nextId, 0)), !.nextId = @ + 1]

\* store() whose extent check clamps the group counts to the maximum
StoreDispatchClamped(extent) ==
    [err |-> "nil",
     groupCount |-> <<IF specMaxComputeGroupCountX < extent[1]
                      THEN specMaxComputeGroupCountX ELSE extent[1],
                      IF specMaxComputeGroupCountY < extent[2]
                      THEN specMaxComputeGroupCountY ELSE extent[2],
                      IF specMaxComputeGroupCountZ < extent[3]
                      THEN specMaxComputeGroupCountZ ELSE extent[3]>>]

\* "Check store extent dimension" of store() and the group counts its
\* VkCmdDispatch is recorded with
StoreDispatch(extent) ==
    IF specMaxComputeGroupCountX < extent[1] THEN [err |-> "Extent.Width", groupCount |-> <<>>]
    ELSE IF specMaxComputeGroupCountY < extent[2]
         THEN [err |-> "Extent.Height", groupCount |-> <<>>]
    ELSE IF specMaxComputeGroupCountZ < extent[3]
         THEN [err |-> "Extent.z", groupCount |-> <<>>]
    ELSE [err |-> "nil", groupCount |-> <<extent[1], extent[2], extent[3]>>]

\* store(job, queue) on handler state st: the objects of the device, the image
\* type check, the compute pipeline, the extent check, and only then the task.
\* A commit that fails is logged and store returns nil.
StoreCall(st, job, commitOk) ==
    LET none == CacheKey("sh", "", job.dev, "", "")
        s1 == GetOrCreate(st, [none EXCEPT !.kind = "descPool"], "vkCreateDescriptorPool")
        s2 == GetOrCreate(s1, [none EXCEPT !.kind = "descSetLayout"],
                          "vkCreateDescriptorSetLayout")
        s3 == GetOrCreate(s2, [none EXCEPT !.kind = "descSet"], "vkAllocateDescriptorSet")
        s4 == GetOrCreate(s3, [none EXCEPT !.kind = "pipelineLayout"],
                          "vkCreatePipelineLayout")
        info == CacheKey("sh", "pipeline", job.dev, job.fmt, "COLOR")
        hit == info \in DOMAIN s4.caches
        s5 == IF hit THEN s4
              ELSE GetOrCreate(s4, [info EXCEPT !.kind = "shader"], "vkCreateShaderModule")
        s6 == GetOrCreate(s5, info, "VkCreateComputePipelines")
        d == StoreDispatch(job.extent)
        tsk == [descSet |-> s6.caches[[none EXCEPT !.kind = "descSet"]],
                descSetWrittenFor |-> job,
                cmds |-> <<Cmd("VkCmdBindPipeline", s6.caches[info], 0),
                           Cmd("VkCmdBindDescriptorSets",
                               s6.caches[[none EXCEPT !.kind = "descSet"]], 0),
                           Cmd("VkCmdPushConstants",
                               s6.caches[[none EXCEPT !.kind = "pipelineLayout"]], 0),
                           Cmd("VkCmdDispatch", d.groupCount, 0)>>]
    IN  IF job.typeMismatch THEN [st |-> s4, err |-> "ImageType", created |-> 0, tasks |-> <<>>]
        ELSE IF ~hit /\ job.fmt = "UNSUPPORTED"
             THEN [st |-> s4, err |-> "GettingComputePipeline", created |-> 0, tasks |-> <<>>]
        ELSE IF d.err # "nil" THEN [st |-> s6, err |-> d.err, created |-> 0, tasks |-> <<>>]
        ELSE [st |-> s6, err |-> "nil", created |-> 1,
              tasks |-> IF commitOk THEN <<tsk>> ELSE <<>>]

\* beginRenderPassAndDraw that clears the stencil attachment in every pass of
\* a stencil target
BeginRenderPassAndDrawAlwaysClears(info) ==
    <<Cmd("VkCmdBeginRenderPass", info.renderPass, 0)>>
        \o (IF info.aspect = "STENCIL"
            THEN <<Cmd("VkCmdClearAttachments", "STENCIL", 0)>> ELSE <<>>)
        \o <<Cmd("VkCmdBindPipeline", info.pipeline, 0),
             Cmd("VkCmdSetViewport", 0, 0), Cmd("VkCmdSetScissor", 0, 0)>>
        \o (IF info.aspect = "STENCIL"
            THEN <<Cmd("VkCmdSetStencilWriteMask", info.stencilWriteMask, 0),
                   Cmd("VkCmdSetStencilReference", info.stencilReference, 0)>>
            ELSE <<>>)
        \o <<Cmd("VkCmdBindDescriptorSets", info.descSet, 0),
             Cmd("VkCmdDraw", 6, 0), Cmd("VkCmdEndRenderPass", 0, 0)>>

\* beginRenderPassAndDraw(info): the commands of one render-pass invocation
BeginRenderPassAndDraw(info) ==
    <<Cmd("VkCmdBeginRenderPass", info.renderPass, 0)>>
        \o (IF info.clearStencil
            THEN <<Cmd("VkCmdClearAttachments", "STENCIL", 0)>> ELSE <<>>)
        \o <<Cmd("VkCmdBindPipeline", info.pipeline, 0),
             Cmd("VkCmdSetViewport", 0, 0), Cmd("VkCmdSetScissor", 0, 0)>>
        \o (IF info.aspect = "STENCIL"
            THEN <<Cmd("VkCmdSetStencilWriteMask", info.stencilWriteMask, 0),
                   Cmd("VkCmdSetStencilReference", info.stencilReference, 0)>>
            ELSE <<>>)
        \o <<Cmd("VkCmdBindDescriptorSets", info.descSet, 0),
             Cmd("VkCmdDraw", 6, 0), Cmd("VkCmdEndRenderPass", 0, 0)>>

\* An image memory barrier of render(): the attachment and its layouts
RenderBarrier(image, oldLayout, newLayout) ==
    [image |-> image, oldLayout |-> oldLayout, newLayout |-> newLayout]

\* A barrier of render() on its render target job.renderTarget of job im: the
\* aspects are ipImageBarrierAspectFlags of the aspect rendered, the range is
\* `levelCount` levels from `baseMipLevel` on
OutputBarrier(im, oldLayout, newLayout, baseMipLevel, levelCount) ==
    [image |-> <<"output", 0>>, oldLayout |-> oldLayout, newLayout |-> newLayout,
     aspects |-> IpImageBarrierAspectFlags(im.aspect, im.combined),
     levels |-> baseMipLevel..(baseMipLevel + levelCount - 1)]

\* dstBarriers that holds every input, whatever its final layout
DstBarriersOfAllInputs(im) ==
    [k \in DOMAIN im.inputs |->
        RenderBarrier(<<"input", k>>, "SHADER_READ_ONLY_OPTIMAL", im.inputs[k])]
        \o (IF im.aspect = "STENCIL"
            THEN <<OutputBarrier(im, "DEPTH_STENCIL_ATTACHMENT_OPTIMAL", im.finalLayout,
                                 im.level, 1)>>
            ELSE <<>>)

\* dstBarriers of render(): the inputs whose final layout is not the layout
\* they are read in, then the output of a stencil render
DstBarriers(im) ==
    Flatten([k \in DOMAIN im.inputs |->
                IF im.inputs[k] # "SHADER_READ_ONLY_OPTIMAL"
                THEN <<RenderBarrier(<<"input", k>>, "SHADER_READ_ONLY_OPTIMAL",
                                     im.inputs[k])>>
                ELSE <<>>])
        \o (IF im.aspect = "STENCIL"
            THEN <<OutputBarrier(im, "DEPTH_STENCIL_ATTACHMENT_OPTIMAL", im.finalLayout,
                                 im.level, 1)>>
            ELSE <<>>)

\* A render() that registers no destroy for its framebuffer
DeferUntilExecutedButFramebuffer(deferred, op, s) ==
    IF op = "VkDestroyFramebuffer" THEN deferred
    ELSE Append(deferred, Cmd(op, s.nextId - 1, 0))

\* tsk.deferUntilExecuted of the destroy of the object that was created last
\* in handler state s
DeferUntilExecuted(deferred, op, s) == Append(deferred, Cmd(op, s.nextId - 1, 0))

\* render(job, tsk) on handler state st, for the job of one level of image im.
\* The staging images carry the image type of the primed image (their info is
\* a clone of its info), so the first input attachment of a 3-D image ends the
\* call; all error returns come before the first recordCmdBufCommand. The
\* destroy of every object made for the call is deferred on the task as soon
\* as the object exists.
Render(st, im) ==
    LET dsi == CacheKey("rh", "", im.dev, "",
                        IF im.aspect = "STENCIL" THEN "pushConstant" ELSE "")
        n == Len(im.inputs)
        fails(o) == im.createFail # 0 /\ TransientObjects[im.createFail] = o
        s1 == CreateUncached(st, "vkCreateDescriptorPool")
        d1 == DeferUntilExecuted(<<>>, "VkDestroyDescriptorPool", s1)
        s2 == GetOrCreate(s1, [dsi EXCEPT !.kind = "descriptorSetLayout"],
                          "vkCreateDescriptorSetLayout")
        s3 == CreateUncached(s2, "vkAllocateDescriptorSet")
        d3 == DeferUntilExecuted(d1, "VkFreeDescriptorSets", s3)
        sIn[k \in 0..n] == IF k = 0 THEN s3
                           ELSE CreateUncached(sIn[k - 1], "vkCreateImageView")
        dIn[k \in 0..n] == IF k = 0 THEN d3
                           ELSE DeferUntilExecuted(dIn[k - 1], "VkDestroyImageView", sIn[k])
        s4 == CreateUncached(sIn[n], "vkCreateImageView")
        d4 == DeferUntilExecuted(dIn[n], "VkDestroyImageView", s4)
        sRp == CreateUncached(s4, "vkCreateRenderPass")
        dRp == DeferUntilExecuted(d4, "VkDestroyRenderPass", sRp)
        s5 == CreateUncached(sRp, "vkCreateFramebuffer")
        d5 == DeferUntilExecuted(dRp, "VkDestroyFramebuffer", s5)
        s6 == GetOrCreate(s5, [dsi EXCEPT !.kind = "pipelineLayout"], "vkCreatePipelineLayout")
        info == CacheKey("rh", "pipeline", im.dev, im.fmt, im.aspect)
        hit == info \in DOMAIN s6.caches
        s7 == IF hit THEN s6
              ELSE GetOrCreate(s6, CacheKey("rh", "shader", im.dev, "", "vertex"),
                               "vkCreateShaderModule")
        fragErr == ~hit /\ im.fmt = "UNSUPPORTED" /\ im.aspect # "STENCIL"
        s8 == IF hit THEN s7
              ELSE GetOrCreate(s7, [info EXCEPT !.kind = "shader"], "vkCreateShaderModule")
        s9 == GetOrCreate(s8, info, "VkCreateGraphicsPipelines")
        outputPreRenderLayout == IF im.aspect = "COLOR" THEN "COLOR_ATTACHMENT_OPTIMAL"
                                 ELSE "DEPTH_STENCIL_ATTACHMENT_OPTIMAL"
        \* an input comes in input.initialLayout, which prime() sets to
        \* SHADER_READ_ONLY_OPTIMAL; the old layout of the output is the layout
        \* its subresource has in the new state when render() is called
        srcBarriers == [k \in 1..n |->
                           RenderBarrier(<<"input", k>>, "SHADER_READ_ONLY_OPTIMAL",
                                         "SHADER_READ_ONLY_OPTIMAL")]
                       \o <<OutputBarrier(im, im.stateLayout, outputPreRenderLayout,
                                          im.level, 1)>>
        drawInfo(i) == [renderPass |-> sRp.nextId - 1, descSet |-> s3.nextId - 1,
                        pipeline |-> s9.caches[info], aspect |-> im.aspect,
                        stencilWriteMask |-> IF im.aspect = "STENCIL" THEN Pow2(i) ELSE 0,
                        stencilReference |-> IF im.aspect = "STENCIL" THEN Pow2(i) ELSE 0,
                        clearStencil |-> im.aspect = "STENCIL" /\ i = 0]
        \* the closure of pass i reads the loop variable when the task commits
        stencilPass(i) ==
            <<Cmd("VkCmdPipelineBarrier",
                  <<OutputBarrier(im, "DEPTH_STENCIL_ATTACHMENT_OPTIMAL",
                                  "DEPTH_STENCIL_ATTACHMENT_OPTIMAL", 0, im.levels)>>, 0),
              Cmd("VkCmdPushConstants", [stencilIndexOfPass |-> i], 0)>>
                \o BeginRenderPassAndDraw(drawInfo(i))
        draws == IF im.aspect = "STENCIL"
                 THEN Flatten([k \in 1..StencilPasses |-> stencilPass(k - 1)])
                 ELSE BeginRenderPassAndDraw(drawInfo(0))
        dstBarriers == DstBarriers(im)
        failed(s, e, d) == [st |-> s, err |-> e, cmds |-> <<>>, deferred |-> d]
    IN  IF fails("descPool") THEN failed(st, "CreateDescriptorPool", <<>>)
        ELSE IF fails("descSet") THEN failed(s2, "AllocDescriptorSet", d1)
        ELSE IF im.imageType = "3D" THEN failed(s3, "3D", d3)
        ELSE IF fails("inputView") THEN failed(s3, "CreateImageView", d3)
        ELSE IF fails("outputView") THEN failed(sIn[n], "CreateImageView", dIn[n])
        ELSE IF fails("renderPass") THEN failed(s4, "CreateRenderPass", d4)
        ELSE IF fails("framebuffer") THEN failed(sRp, "CreateFramebuffer", dRp)
        ELSE IF fragErr THEN failed(s7, "GettingGraphicsPipeline", d5)
        ELSE [st |-> s9, err |-> "nil",
              cmds |-> <<Cmd("VkCmdPipelineBarrier", srcBarriers, 0)>> \o draws
                           \o (IF dstBarriers # <<>>
                               THEN <<Cmd("VkCmdPipelineBarrier", dstBarriers, 0)>>
                               ELSE <<>>),
              deferred |-> d5]

\* The loop `for _, renderJob := range renderJobs` of ipPrimeableByRendering.prime
\* from job `level` on: render each job on the one task, log an error and go on.
RECURSIVE RenderJobs(_, _, _, _, _)
RenderJobs(st, im, level, cmds, errs) ==
    IF level > MaxSubres THEN [st |-> st, cmds |-> cmds, renderErrs |-> errs]
    ELSE LET r == Render(st, [im EXCEPT !.level = level - 1])
         IN  RenderJobs(r.st, im, level + 1, cmds \o r.cmds,
                        IF r.err = "nil" THEN errs ELSE Append(errs, r.err))

HandlerState == [caches |-> caches, written |-> hWritten, nextId |-> hNextId]

\* newImagePrimer: both handlers are made with empty maps
NewImagePrimer ==
    /\ hPc = "idle"
    /\ hPc' = "open"
    /\ UNCHANGED <<caches, hWritten, hDestroyed, hNextId, calls, lastCall, lastTasks>>
    /\ UNCHANGED <<selVars, rollVars, stVars, thrVars, cdVars>>

\* A commit that submits the command buffer before it runs the callbacks of
\* doOnCommitted
CommitStoreTaskWritesLate(tsk, k) ==
    Stamp(tsk.cmds, k)
        \o <<Cmd("vkQueueSubmit", tsk.descSet, k),
             Cmd("vkUpdateDescriptorSets", [descSet |-> tsk.descSet, binding |-> "output"], k),
             Cmd("vkUpdateDescriptorSets", [descSet |-> tsk.descSet, binding |-> "input"], k)>>

\* tsk.commit() of the task of the k-th call, when it succeeds: the callback of
\* doOnCommitted writes the output and the input binding of the descriptor set,
\* then the recorded commands are written and the command buffer is submitted
CommitStoreTask(tsk, k) ==
    <<Cmd("vkUpdateDescriptorSets", [descSet |-> tsk.descSet, binding |-> "output"], k),
      Cmd("vkUpdateDescriptorSets", [descSet |-> tsk.descSet, binding |-> "input"], k)>>
        \o Stamp(tsk.cmds, k)
        \o <<Cmd("vkQueueSubmit", tsk.descSet, k)>>

\* One call of p.sh.store(job, queue)
Store ==
    /\ hPc = "open"
    /\ calls < MaxCalls
    /\ \E job \in StoreJobs, commitOk \in BOOLEAN :
          LET r == StoreCall(HandlerState, job, commitOk)
          IN  /\ caches' = r.st.caches
              /\ hWritten' = r.st.written
                                \o (IF r.tasks # <<>>
                                    THEN CommitStoreTask(r.tasks[1], calls + 1) ELSE <<>>)
              /\ hNextId' = r.st.nextId
              /\ lastCall' = [call |-> "store", job |-> job, err |-> r.err,
                              renderErrs |-> <<>>, created |-> r.created]
              /\ lastTasks' = r.tasks
    /\ calls' = calls + 1
    /\ UNCHANGED <<hPc, hDestroyed>>
    /\ UNCHANGED <<selVars, rollVars, stVars, thrVars, cdVars>>

\* One call of prime() of an ipPrimeableByRendering on an image of MaxSubres
\* levels: one task, render() per job, then the commit, whose error is the
\* only one prime returns.
RenderingPrime ==
    /\ hPc = "open"
    /\ calls < MaxCalls
    /\ \E im \in RenderImages, commitOk \in BOOLEAN :
          LET r == RenderJobs(HandlerState, im, 1, <<>>, <<>>)
          IN  /\ caches' = r.st.caches
              /\ hWritten' = r.st.written
              /\ hNextId' = r.st.nextId
              /\ lastCall' = [call |-> "prime", job |-> im,
                              err |-> IF commitOk THEN "nil" ELSE "Commit",
                              renderErrs |-> r.renderErrs, created |-> 1]
              /\ lastTasks' = IF commitOk THEN <<[cmds |-> r.cmds]>> ELSE <<>>
    /\ calls' = calls + 1
    /\ UNCHANGED <<hPc, hDestroyed>>
    /\ UNCHANGED <<selVars, rollVars, stVars, thrVars, cdVars>>

\* Keys of handler h whose objects its free() destroys
FreedKeys(h) ==
    {k \in DOMAIN caches :
        /\ k.h = h
        /\ k.kind \in IF h = "rh"
                      THEN {"pipeline", "shader", "pipelineLayout", "descriptorSetLayout"}
                      ELSE {"pipeline", "shader", "pipelineLayout", "descPool",
                            "descSetLayout"}}

\* imagePrimer.free(): p.rh.free() then p.sh.free(). Each ranges over its maps
\* and writes a destroy per object, in the order of the map iteration; the
\* store handler also deletes the entries.
FreeHandlers ==
    /\ hPc = "open"
    /\ hPc' = "freed"
    /\ hDestroyed' = {caches[k] : k \in FreedKeys("rh") \cup FreedKeys("sh")}
    /\ caches' = [k \in DOMAIN caches \ FreedKeys("sh") |-> caches[k]]
    /\ UNCHANGED <<hWritten, hNextId, calls, lastCall, lastTasks>>
    /\ UNCHANGED <<selVars, rollVars, stVars, thrVars, cdVars>>

InitHandlers ==
    /\ SelectorIdle
    /\ RolloutIdle
    /\ StencilIdle
    /\ HandlersIdle
    /\ ThreadsIdle
    /\ CopyDataIdle

NextHandlers == NewImagePrimer \/ Store \/ RenderingPrime \/ FreeHandlers

SpecHandlers == InitHandlers /\ [][NextHandlers]_vars

\* ------------------------------------------------------------------ one render task

\* render(job, tsk) on a task of its own, as prime() calls it on a new primer:
\* what the call records on the task and defers on it. prime() logs an error
\* of render() and commits the task all the same.
RenderOnTask ==
    /\ hPc = "open"
    /\ calls = 0
    /\ \E im \in RenderCalls :
          LET r == Render(HandlerState, im)
          IN  /\ caches' = r.st.caches
              /\ hWritten' = r.st.written
              /\ hNextId' = r.st.nextId
              /\ lastCall' = [call |-> "render", job |-> im, err |-> r.err,
                              renderErrs |-> <<>>, created |-> 1]
              /\ lastTasks' = <<[cmds |-> r.cmds, deferred |-> r.deferred,
                                 state |-> "recorded"]>>
    /\ calls' = calls + 1
    /\ UNCHANGED <<hPc, hDestroyed>>
    /\ UNCHANGED <<selVars, rollVars, stVars, thrVars, cdVars>>

\* renderTsk.commit(): the recorded commands are written and submitted; a
\* task whose commit fails is never executed
RenderTaskCommit ==
    /\ lastCall.call = "render"
    /\ lastTasks[1].state = "recorded"
    /\ \E ok \in BOOLEAN :
          /\ lastTasks' = <<[lastTasks[1] EXCEPT !.state = IF ok THEN "committed"
                                                          ELSE "failed"]>>
          /\ hWritten' = IF ok THEN hWritten \o lastTasks[1].cmds ELSE hWritten
    /\ UNCHANGED <<caches, hDestroyed, hNextId, calls, lastCall, hPc>>
    /\ UNCHANGED <<selVars, rollVars, stVars, thrVars, cdVars>>

\* The queue has executed the task: the callbacks of deferUntilExecuted run
RenderTaskExecuted ==
    /\ lastCall.call = "render"
    /\ lastTasks[1].state = "committed"
    /\ lastTasks' = <<[lastTasks[1] EXCEPT !.state = "executed"]>>
    /\ hWritten' = hWritten \o lastTasks[1].deferred
    /\ hDestroyed' = hDestroyed \cup {lastTasks[1].deferred[k].obj :
                                          k \in DOMAIN lastTasks[1].deferred}
    /\ UNCHANGED <<caches, hNextId, calls, lastCall, hPc>>
    /\ UNCHANGED <<selVars, rollVars, stVars, thrVars, cdVars>>

NextRender == NewImagePrimer \/ RenderOnTask \/ RenderTaskCommit \/ RenderTaskExecuted

SpecRender == InitHandlers /\ [][NextRender]_vars

\* ------------------------------------------------------------------ layouts of a render target

\* createRenderPass(info, finalLayout): the initial and the final layout of the
\* output attachment of the render pass
CreateRenderPass(targetAspect, finalLayout) ==
    [initialLayout |-> IF targetAspect = "COLOR" THEN "COLOR_ATTACHMENT_OPTIMAL"
                       ELSE "DEPTH_STENCIL_ATTACHMENT_OPTIMAL",
     finalLayout |-> IF targetAspect = "STENCIL" THEN "DEPTH_STENCIL_ATTACHMENT_OPTIMAL"
                     ELSE finalLayout]

\* The layouts an image subresource is found in, asked for and left in
TargetLayouts == {"UNDEFINED", "GENERAL", "SHADER_READ_ONLY_OPTIMAL"}

\* The images primed by rendering: a color image, and a depth/stencil image of
\* a combined format; `layouts` are the layouts of its levels in the new state
\* (one layout for both aspects of a level of a combined format)
TargetImages ==
    {i \in [aspects : {<<"COLOR">>, <<"DEPTH", "STENCIL">>},
            levels : 1..MaxSubres,
            layouts : [0..(MaxSubres - 1) -> TargetLayouts]] :
        \A l \in i.levels..(MaxSubres - 1) : i.layouts[l] = "UNDEFINED"}

\* The srcLayout a caller of prime() passes for image i: one layout for all,
\* or the layouts the image has
SrcLayoutsOf(i) ==
    {UseSpecifiedLayout(l) : l \in TargetLayouts}
        \cup {SameLayoutsOfImage([sub \in Range(i.aspects) \X {0} \X (0..(i.levels - 1)) |->
                                     i.layouts[sub[3]]])}

\* renderJobs of ipPrimeableByRendering.prime(srcLayout, dstLayout): a job per
\* aspect and level (the image has one layer), with one staging image as input
PrimeRenderJobs(i, src, dst) ==
    [k \in 1..(Len(i.aspects) * i.levels) |->
        LET aspect == i.aspects[((k - 1) \div i.levels) + 1]
            level == (k - 1) % i.levels
        IN  [dev |-> 1, fmt |-> "R8G8B8A8_UNORM", aspect |-> aspect, imageType |-> "2D",
             createFail |-> 0, inputs |-> <<"SHADER_READ_ONLY_OPTIMAL">>,
             combined |-> Len(i.aspects) > 1, level |-> level, levels |-> i.levels,
             stateLayout |-> i.layouts[level],
             initialLayout |-> LayoutOf(src, aspect, 0, level),
             finalLayout |-> LayoutOf(dst, aspect, 0, level)]]

\* What the commands render() recorded for job `job` do to the layout of the
\* render target, in order: the barriers on the target, and the render passes
\* with the layouts createRenderPass gave their output attachment
TargetLayoutEvents(job, cmds) ==
    Flatten([c \in DOMAIN cmds |->
        IF cmds[c].op = "VkCmdPipelineBarrier"
        THEN Flatten([b \in DOMAIN cmds[c].obj |->
                 IF cmds[c].obj[b].image = <<"output", 0>>
                 THEN <<[kind |-> "barrier", job |-> job,
                         aspects |-> cmds[c].obj[b].aspects,
                         levels |-> cmds[c].obj[b].levels,
                         oldLayout |-> cmds[c].obj[b].oldLayout,
                         newLayout |-> cmds[c].obj[b].newLayout]>>
                 ELSE <<>>])
        ELSE IF cmds[c].op = "VkCmdBeginRenderPass"
        THEN <<[kind |-> "renderPass", job |-> job,
                aspects |-> IpImageBarrierAspectFlags(job.aspect, job.combined),
                levels |-> {job.level},
                oldLayout |-> CreateRenderPass(job.aspect, job.finalLayout).initialLayout,
                newLayout |-> CreateRenderPass(job.aspect, job.finalLayout).finalLayout]>>
        ELSE <<>>])

\* The loop over renderJobs of prime() from job k on, with the layout events
\* of the commands recorded
RECURSIVE RenderAll(_, _, _, _, _)
RenderAll(st, jobs, k, cmds, events) ==
    IF k > Len(jobs) THEN [st |-> st, cmds |-> cmds, events |-> events]
    ELSE LET r == Render(st, jobs[k])
         IN  RenderAll(r.st, jobs, k + 1, cmds \o r.cmds,
                       events \o TargetLayoutEvents(jobs[k], r.cmds))

\* prime(srcLayout, dstLayout) of an ipPrimeableByRendering on a new primer: all
\* jobs are built and rendered on the one task, then the task is committed
PrimeTargetLayouts ==
    /\ hPc = "open"
    /\ calls = 0
    /\ \E i \in TargetImages, dst \in TargetLayouts \ {"UNDEFINED"}, commitOk \in BOOLEAN :
         \E src \in SrcLayoutsOf(i) :
          LET jobs == PrimeRenderJobs(i, src, UseSpecifiedLayout(dst))
              r == RenderAll(HandlerState, jobs, 1, <<>>, <<>>)
          IN  /\ caches' = r.st.caches
              /\ hWritten' = IF commitOk THEN r.st.written \o r.cmds ELSE r.st.written
              /\ hNextId' = r.st.nextId
              /\ lastCall' = [call |-> "primeLayouts",
                              job |-> [image |-> i, srcLayout |-> src,
                                       dstLayout |-> UseSpecifiedLayout(dst), jobs |-> jobs],
                              err |-> IF commitOk THEN "nil" ELSE "Commit",
                              renderErrs |-> <<>>, created |-> 1]
              /\ lastTasks' = IF commitOk
                              THEN <<[cmds |-> r.cmds, events |-> r.events]>> ELSE <<>>
    /\ calls' = calls + 1
    /\ UNCHANGED <<hPc, hDestroyed>>
    /\ UNCHANGED <<selVars, rollVars, stVars, thrVars, cdVars>>

NextTargetLayouts == NewImagePrimer \/ PrimeTargetLayouts

SpecTargetLayouts == InitHandlers /\ [][NextTargetLayouts]_vars

\* ================================================================== concurrent priming

\* Two host threads, each in prime() of its own ipPrimeableByRendering, on the
\* one render handler and state builder of the imagePrimer. No statement of
\* prime() or render() locks or unlocks renderTaskCommitLock.

\* prime() up to the commit: the task, and render() for the job of each level.
\* Each render() allocates a descriptor set of its own, registers the write of
\* that set with doOnCommitted, and records the commands that bind it.
ThreadRender(t) ==
    /\ tPc[t] = "start"
    /\ \E aspect \in {"COLOR", "DEPTH", "STENCIL"} :
          LET allocated == Len(tJobs[1]) + Len(tJobs[2])
          IN  tJobs' = [tJobs EXCEPT ![t] =
                  [l \in 1..MaxSubres |->
                      [descSet |-> allocated + l,
                       job |-> [thread |-> t, level |-> l, aspect |-> aspect]]]]
    /\ tPc' = [tPc EXCEPT ![t] = "rendered"]
    /\ UNCHANGED <<dsWrittenFor, submitted, renderTaskCommitLock>>
    /\ UNCHANGED <<selVars, rollVars, stVars, hdlVars, cdVars>>

\* renderTsk.commit(), first part: the doOnCommitted callbacks run and write
\* the descriptor sets of the task
ThreadCommitWrite(t) ==
    /\ tPc[t] = "rendered"
    /\ LET own == {tJobs[t][k].descSet : k \in DOMAIN tJobs[t]}
           jobOf(ds) == (CHOOSE k \in DOMAIN tJobs[t] : tJobs[t][k].descSet = ds)
       IN  dsWrittenFor' = [ds \in DOMAIN dsWrittenFor \cup own |->
                               IF ds \in own THEN tJobs[t][jobOf(ds)].job
                               ELSE dsWrittenFor[ds]]
    /\ tPc' = [tPc EXCEPT ![t] = "written"]
    /\ UNCHANGED <<tJobs, submitted, renderTaskCommitLock>>
    /\ UNCHANGED <<selVars, rollVars, stVars, hdlVars, cdVars>>

\* renderTsk.commit(), second part: the commands of the task are submitted to
\* the queue with the descriptor sets as they are now, or the commit fails
ThreadCommitSubmit(t) ==
    /\ tPc[t] = "written"
    /\ \E ok \in BOOLEAN :
          /\ tPc' = [tPc EXCEPT ![t] = IF ok THEN "submitted" ELSE "failed"]
          /\ submitted' =
                IF ok
                THEN Append(submitted,
                            [k \in DOMAIN tJobs[t] |->
                                [job |-> tJobs[t][k].job,
                                 heldFor |-> dsWrittenFor[tJobs[t][k].descSet]]])
                ELSE submitted
    /\ UNCHANGED <<tJobs, dsWrittenFor, renderTaskCommitLock>>
    /\ UNCHANGED <<selVars, rollVars, stVars, hdlVars, cdVars>>

InitThreads ==
    /\ SelectorIdle
    /\ RolloutIdle
    /\ StencilIdle
    /\ HandlersIdle
    /\ tPc = [t \in Threads |-> "start"]
    /\ tJobs = [t \in Threads |-> <<>>]
    /\ dsWrittenFor = <<>>
    /\ submitted = <<>>
    /\ renderTaskCommitLock = [t \in Threads |-> FALSE]
    /\ CopyDataIdle

NextThreads ==
    \E t \in Threads : ThreadRender(t) \/ ThreadCommitWrite(t) \/ ThreadCommitSubmit(t)

SpecThreads == InitThreads /\ [][NextThreads]_vars

\* ================================================================== claims: concurrent priming

\* C17: for two threads priming by rendering through the same render handler,
\* the part of a commit from the write of the descriptor sets of a task to the
\* submission of its commands is a critical section under the mutex: a thread
\* inside it holds the lock, no two threads are inside it together, and every
\* submitted task was submitted with its descriptor sets holding its own jobs.
C17_CommitIsCriticalSection ==
    /\ \A t \in Threads : tPc[t] = "written" => renderTaskCommitLock[t]
    /\ \A t1, t2 \in Threads : (tPc[t1] = "written" /\ tPc[t2] = "written") => t1 = t2
    /\ \A n \in DOMAIN submitted : \A k \in DOMAIN submitted[n] :
          submitted[n][k].heldFor = submitted[n][k].job

\* ================================================================== claims: the handlers

DispatchesOf(tsks) ==
    {c \in UNION {Range(tsks[k].cmds) : k \in DOMAIN tsks} : c.op = "VkCmdDispatch"}

ExceedsMaximum(extent) ==
    \/ extent[1] > specMaxComputeGroupCountX
    \/ extent[2] > specMaxComputeGroupCountY
    \/ extent[3] > specMaxComputeGroupCountZ

\* C16: a store() whose job extent exceeds 65536 in width, height or depth
\* returns an error, creates no task and commits none, so no dispatch is
\* recorded; a store() that commits a task dispatches exactly the extent of
\* its job, and does so only for an extent within the maximum.
C16_ExtentBound ==
    lastCall.call = "store" =>
        /\ ExceedsMaximum(lastCall.job.extent) =>
              /\ lastCall.err # "nil"
              /\ lastCall.created = 0
              /\ lastTasks = <<>>
        /\ \A d \in DispatchesOf(lastTasks) :
              /\ d.obj = lastCall.job.extent
              /\ ~ExceedsMaximum(d.obj)
        /\ (lastCall.err = "nil" /\ lastTasks # <<>>) => DispatchesOf(lastTasks) # {}

C16_Witness ==
    /\ calls = 2
    /\ lastCall.call = "store"
    /\ lastCall.job.extent = <<1, 1, 65537>>
    /\ lastCall.err = "Extent.z"
    /\ lastTasks = <<>>

CachedKinds == {"descriptorSetLayout", "descSetLayout", "pipelineLayout", "shader", "pipeline"}

CachedOps ==
    {"vkCreateDescriptorSetLayout", "vkCreatePipelineLayout", "vkCreateShaderModule",
     "VkCreateComputePipelines", "VkCreateGraphicsPipelines"}

CachedKeys(m) == {k \in DOMAIN m : k.kind \in CachedKinds}

CreatesOf(w) == {k \in DOMAIN w : w[k].op \in CachedOps}

\* C18: while the handlers are open, distinct keys of the caches hold distinct
\* objects and each cached object has exactly one create command; a call
\* leaves every key already cached on the same object, and writes a create
\* command for a cached kind of object exactly once per key it adds.
C18_OneObjectPerKey ==
    /\ [](hPc = "open" =>
            /\ \A k1, k2 \in DOMAIN caches : caches[k1] = caches[k2] => k1 = k2
            /\ \A k \in CachedKeys(caches) :
                  Cardinality({n \in CreatesOf(hWritten) : hWritten[n].obj = caches[k]}) = 1
            /\ Cardinality(CreatesOf(hWritten)) = Cardinality(CachedKeys(caches)))
    /\ [][(hPc = "open" /\ calls' = calls + 1) =>
            /\ \A k \in DOMAIN caches : k \in DOMAIN caches' /\ caches'[k] = caches[k]
            /\ Cardinality(CreatesOf(hWritten')) - Cardinality(CreatesOf(hWritten))
                  = Cardinality(CachedKeys(caches') \ CachedKeys(caches))]_vars

\* The second of two store() calls with the same shader info: it commits a
\* task and nothing was created after the six objects of the first call.
C18_Witness ==
    /\ calls = 2
    /\ lastCall.call = "store"
    /\ lastTasks # <<>>
    /\ Cardinality({n \in DOMAIN hWritten : hWritten[n].by = 0}) = 6

\* C19: a prime() by rendering of a 3-D image records no barrier and no draw
\* command, and returns an error.
C19_3DImageFails ==
    (lastCall.call = "prime" /\ lastCall.job.imageType = "3D") =>
        /\ \A k \in DOMAIN lastTasks : lastTasks[k].cmds = <<>>
        /\ lastCall.err # "nil"

\* ================================================================== getCopyAndData

\* Element sizes of the formats: in the data of a level, and in a buffer
ElementSize(fmt) ==
    CASE fmt = "R8_UINT" -> [level |-> 1, inBuf |-> 1]
      [] fmt = "R8G8B8A8_UNORM" -> [level |-> 4, inBuf |-> 4]
      [] fmt = "D32_SFLOAT" -> [level |-> 4, inBuf |-> 4]
      [] fmt = "X8_D24_UNORM_PACK32" -> [level |-> 3, inBuf |-> 4]
      [] fmt = "R32_UINT" -> [level |-> 4, inBuf |-> 4]
      [] fmt = "R32G32B32A32_UINT" -> [level |-> 16, inBuf |-> 16]

\* sb.levelSize(extent, fmt, 0, aspect) for an uncompressed format: the bytes
\* of width x height x depth elements
LevelSize(extent, elem) == extent[1] * extent[2] * extent[3] * elem

\* unpackDataForPriming for channels that are unsigned integers: every group of
\* `bytes` bytes of the source becomes one little-endian unsigned 32-bit value
UnpackDataForPriming(data, bytes) ==
    [k \in 1..((Len(data) \div bytes) * 4) |->
        LET q == (k - 1) \div 4
            r == (k - 1) % 4
        IN  IF r < bytes THEN data[q * bytes + r + 1] ELSE 0]

\* An extendToMultipleOf8 that appends nothing
ExtendToMultipleOf8Nothing(data) == data

ExtendToMultipleOf8(data) ==
    data \o [k \in 1..(NextMultipleOf(Len(data), 8) - Len(data)) |-> 0]

\* getCopyAndData for the level data `data` of the source subresource and the
\* block at `offset` of size `extent`
GetCopyAndData(data, srcFmt, dstFmt, offset, extent) ==
    LET bufImgCopy == [imageOffset |-> offset, imageExtent |-> extent]
        srcImgDataOffset == LevelSize(offset, ElementSize(srcFmt).level)
        srcImgDataSizeInBytes == LevelSize(extent, ElementSize(srcFmt).level)
        dataSlice == [k \in 1..srcImgDataSizeInBytes |->
                         IF srcImgDataOffset + k \in DOMAIN data
                         THEN data[srcImgDataOffset + k] ELSE 0]
        expected == NextMultipleOf(LevelSize(extent, ElementSize(dstFmt).inBuf), 8)
        unpackedData ==
            IF dstFmt # srcFmt
            THEN UnpackDataForPriming(dataSlice,
                                      IF srcFmt \in {"D32_SFLOAT", "X8_D24_UNORM_PACK32"}
                                      THEN ElementSize(srcFmt).level
                                      ELSE 1)
            ELSE IF srcFmt = "X8_D24_UNORM_PACK32"
                 THEN UnpackDataForPriming(dataSlice, 3)
                 ELSE <<>>
        payload == IF Len(unpackedData) # 0 THEN ExtendToMultipleOf8(unpackedData)
                   ELSE IF srcImgDataSizeInBytes % 8 # 0 THEN ExtendToMultipleOf8(dataSlice)
                   ELSE dataSlice
    IN  IF Len(payload) # expected
        THEN [err |-> "UnexpectedLength", payload |-> <<>>, copy |-> bufImgCopy]
        ELSE [err |-> "nil", payload |-> payload, copy |-> bufImgCopy]

\* Source and destination formats of the pairs of a copy job: the image itself,
\* or a staging image of the staging format of the aspect; and, last, a
\* destination of another format, which getCopyAndData takes for a staging
\* image and which only its length check turns down
CopyFormats ==
    {[src |-> "R8G8B8A8_UNORM", dst |-> "R32_UINT"],
     [src |-> "R8_UINT", dst |-> "R8_UINT"],
     [src |-> "R8G8B8A8_UNORM", dst |-> "R8G8B8A8_UNORM"],
     [src |-> "R8G8B8A8_UNORM", dst |-> "R32G32B32A32_UINT"],
     [src |-> "D32_SFLOAT", dst |-> "D32_SFLOAT"],
     [src |-> "X8_D24_UNORM_PACK32", dst |-> "X8_D24_UNORM_PACK32"],
     [src |-> "X8_D24_UNORM_PACK32", dst |-> "R32_UINT"]}

\* The bytes of a level of `size` texels: byte p holds step * p
LevelData(size, fmt, step) ==
    [p \in 1..LevelSize(size, ElementSize(fmt).level) |-> (step * p) % 256]

\* A level, and a block inside it: the whole level for a densely bound image,
\* the block of a sparse binding for a sparse one
InitCopyData ==
    /\ SelectorIdle
    /\ RolloutIdle
    /\ StencilIdle
    /\ HandlersIdle
    /\ ThreadsIdle
    /\ cdOut = <<>>
    /\ cdIn \in {i \in [size : (1..MaxExtent) \X (1..MaxExtent) \X (1..MaxExtent),
                        offset : (0..MaxExtent - 1) \X (0..MaxExtent - 1) \X (0..MaxExtent - 1),
                        extent : (1..MaxExtent) \X (1..MaxExtent) \X (1..MaxExtent),
                        fmt : CopyFormats, step : {7, 10}] :
                    \A a \in 1..3 : i.offset[a] + i.extent[a] <= i.size[a]}

GetCopyAndDataCall ==
    /\ cdIn # <<>>
    /\ cdOut = <<>>
    /\ cdOut' = GetCopyAndData(LevelData(cdIn.size, cdIn.fmt.src, cdIn.step),
                               cdIn.fmt.src, cdIn.fmt.dst, cdIn.offset, cdIn.extent)
    /\ UNCHANGED cdIn
    /\ UNCHANGED <<selVars, rollVars, stVars, hdlVars, thrVars>>

NextCopyData == GetCopyAndDataCall

SpecCopyData == InitCopyData /\ [][NextCopyData]_vars

\* ================================================================== claims: getCopyAndData

\* Byte k (from 1) of the block at `offset` of size `extent` in a level of
\* `size` texels of `elem` bytes, rows of the block one after another
RegionByte(data, size, elem, offset, extent, k) ==
    LET q == (k - 1) \div elem
        x == offset[1] + (q % extent[1])
        y == offset[2] + ((q \div extent[1]) % extent[2])
        z == offset[3] + (q \div (extent[1] * extent[2]))
    IN  data[((z * size[2] + y) * size[1] + x) * elem + ((k - 1) % elem) + 1]

\* C20: when source and destination format are equal and the format is not a
\* 24-bit depth format, getCopyAndData returns no error, the payload is the
\* bytes of the requested block of the source level, unchanged and in order,
\* followed by zeros up to a multiple of 8 bytes, and the copy region has the
\* requested offset and extent.
C20_PayloadIsSourceBytes ==
    (cdOut # <<>> /\ cdIn.fmt.src = cdIn.fmt.dst /\ cdIn.fmt.src # "X8_D24_UNORM_PACK32") =>
        LET elem == ElementSize(cdIn.fmt.src).level
            n == LevelSize(cdIn.extent, elem)
            data == LevelData(cdIn.size, cdIn.fmt.src, cdIn.step)
        IN  /\ cdOut.err = "nil"
            /\ Len(cdOut.payload) = NextMultipleOf(n, 8)
            /\ \A k \in 1..Len(cdOut.payload) :
                  cdOut.payload[k] =
                     IF k <= n
                     THEN RegionByte(data, cdIn.size, elem, cdIn.offset, cdIn.extent, k)
                     ELSE 0
            /\ cdOut.copy = [imageOffset |-> cdIn.offset, imageExtent |-> cdIn.extent]

\* ================================================================== claims: the by-image-store prime

\* C30: a prime of the by-image-store variant that finds its image issues one
\* layout transition before the first store job, from the source layouts to
\* GENERAL, and one after the last store job, from GENERAL to the destination
\* layouts, over the same subresources in the same order (every aspect and level
\* of the image); every store job is run between them, and both transitions are
\* issued whether or not a store job fails.
C30_TransitionsAroundStores ==
    \A c \in DOMAIN primeCalls :
        (primeable.kind = "store" /\ primeCalls[c].err = "nil") =>
            LET s == primeCalls[c].steps
                n == Len(s)
                whole == BoundSubresources(img, img.levels)
            IN  /\ n = Len(primeable.storeJobs) + 2
                /\ s[1].op = "changeImageSubRangeLayoutAndOwnership"
                /\ s[n].op = "changeImageSubRangeLayoutAndOwnership"
                /\ \A k \in 2..(n - 1) :
                       s[k].op = "store" /\ s[k].obj = primeable.storeJobs[k - 1]
                /\ Len(s[1].obj) = Len(whole) /\ Len(s[n].obj) = Len(whole)
                /\ \A k \in DOMAIN whole :
                       /\ s[1].obj[k].aspect = whole[k][1] /\ s[1].obj[k].level = whole[k][2]
                       /\ s[n].obj[k].aspect = whole[k][1] /\ s[n].obj[k].level = whole[k][2]
                       /\ s[1].obj[k].oldLayout =
                              LayoutOf(primeCalls[c].srcLayout, whole[k][1], 0, whole[k][2] - 1)
                       /\ s[1].obj[k].newLayout = "GENERAL"
                       /\ s[n].obj[k].oldLayout = "GENERAL"
                       /\ s[n].obj[k].newLayout =
                              LayoutOf(primeCalls[c].dstLayout, whole[k][1], 0, whole[k][2] - 1)

\* A prime with per-subresource source layouts whose first of several store jobs
\* fails.
C30_Witness ==
    /\ primeable.kind = "store"
    /\ \E c \in DOMAIN primeCalls :
          /\ primeCalls[c].err = "nil"
          /\ primeCalls[c].srcLayout.kind = "image"
          /\ Len(primeCalls[c].steps) >= 4
          /\ primeCalls[c].steps[2].by = "err"
          /\ Len(img.aspects) * img.levels >= 2

\* The store job with input and output swapped
InverseJob(j) == [output |-> j.input, input |-> j.output, inputIndex |-> j.inputIndex]

\* The committed store tasks that run the job j
StoreTasksOf(j) == {k \in DOMAIN tasks : tasks[k].kind = "store" /\ tasks[k].img = j}

\* C21: a by-image-store primeable built from device data has, for every store
\* job that prime() will run, exactly one committed store of the inverse job
\* (input and output swapped, the same input index), committed before any store
\* of the job itself, so that the staging image holds the content of every
\* subresource that prime() writes back.
C21_DeviceBuildInvertsPrime ==
    (pc = "built" /\ ~fromHostData /\ primeable.kind = "store") =>
        \A n \in DOMAIN primeable.storeJobs :
            LET j == primeable.storeJobs[n]
            IN  /\ Cardinality(StoreTasksOf(InverseJob(j))) = 1
                /\ \A a \in StoreTasksOf(InverseJob(j)), b \in StoreTasksOf(j) : a < b

\* ================================================================== claims: one render task

\* The commands of the task of the render() call, and where its render passes
\* begin
RenderCmds == lastTasks[1].cmds

PassStarts == {k \in DOMAIN RenderCmds : RenderCmds[k].op = "VkCmdBeginRenderPass"}

\* The commands of the render pass that begins at k, up to its end
PassOps(k) ==
    LET e == CHOOSE j \in k..Len(RenderCmds) :
                 /\ RenderCmds[j].op = "VkCmdEndRenderPass"
                 /\ \A m \in k..(j - 1) : RenderCmds[m].op # "VkCmdEndRenderPass"
    IN  SubSeq(RenderCmds, k, e)

\* The value a command of the pass sets, -1 when the pass holds no such command
\* and -2 when it holds more than one
PassValue(k, op) ==
    LET at == {j \in DOMAIN PassOps(k) : PassOps(k)[j].op = op}
    IN  IF at = {} THEN -1
        ELSE IF Cardinality(at) > 1 THEN -2
        ELSE PassOps(k)[CHOOSE j \in at : TRUE].obj

\* How many commands `op` the pass holds
PassCount(k, op) == Cardinality({j \in DOMAIN PassOps(k) : PassOps(k)[j].op = op})

\* The k-th render pass of the task, counted from 0
NthPass(i) == CHOOSE k \in PassStarts : Cardinality({j \in PassStarts : j < k}) = i

\* C22: a render() that returns no error records, for a stencil target, exactly
\* 8 render-pass invocations; invocation i (0..7, in order) sets the stencil
\* write mask and the stencil reference to 1<<i, and only invocation 0 clears
\* the attachment. For a color or depth target it records exactly one invocation,
\* without a clear and without a write-mask or reference command. Every
\* invocation holds exactly one draw.
C22_RenderPassInvocations ==
    (lastCall.call = "render" /\ lastCall.err = "nil") =>
        /\ Cardinality(PassStarts) = IF lastCall.job.aspect = "STENCIL" THEN 8 ELSE 1
        /\ Cardinality({k \in DOMAIN RenderCmds : RenderCmds[k].op = "VkCmdDraw"})
              = Cardinality(PassStarts)
        /\ \A i \in 0..(Cardinality(PassStarts) - 1) :
              /\ PassValue(NthPass(i), "VkCmdDraw") = 6
              /\ IF lastCall.job.aspect = "STENCIL"
                 THEN /\ PassValue(NthPass(i), "VkCmdSetStencilWriteMask") = Pow2(i)
                      /\ PassValue(NthPass(i), "VkCmdSetStencilReference") = Pow2(i)
                      /\ PassCount(NthPass(i), "VkCmdClearAttachments")
                            = IF i = 0 THEN 1 ELSE 0
                 ELSE /\ PassValue(NthPass(i), "VkCmdSetStencilWriteMask") = -1
                      /\ PassValue(NthPass(i), "VkCmdSetStencilReference") = -1
                      /\ PassCount(NthPass(i), "VkCmdClearAttachments") = 0

\* A stencil render and a depth render, each recorded on its task
C22_Witness ==
    /\ lastCall.call = "render" /\ lastCall.err = "nil"
    /\ lastCall.job.aspect = "STENCIL"
    /\ Cardinality(PassStarts) = 8
    /\ lastTasks[1].state = "committed"

C22_WitnessDepth ==
    /\ lastCall.call = "render" /\ lastCall.err = "nil"
    /\ lastCall.job.aspect = "DEPTH"
    /\ Cardinality(PassStarts) = 1

\* The create commands of the objects render() makes for one call, and the
\* destroy of each
TransientCreates ==
    {"vkCreateDescriptorPool", "vkAllocateDescriptorSet", "vkCreateImageView",
     "vkCreateRenderPass", "vkCreateFramebuffer"}

TransientDestroyOf(op) ==
    CASE op = "vkCreateDescriptorPool" -> "VkDestroyDescriptorPool"
      [] op = "vkAllocateDescriptorSet" -> "VkFreeDescriptorSets"
      [] op = "vkCreateImageView" -> "VkDestroyImageView"
      [] op = "vkCreateRenderPass" -> "VkDestroyRenderPass"
      [] op = "vkCreateFramebuffer" -> "VkDestroyFramebuffer"

TransientDestroys == {TransientDestroyOf(op) : op \in TransientCreates}

\* C26: on every return path of render(), each descriptor pool, descriptor set,
\* image view, render pass and framebuffer the call has created has exactly one
\* destroy among the callbacks deferred on the task until it has executed, and
\* nothing else is deferred; no such destroy is written before the task has
\* executed.
C26_TransientsDestroyedOnce ==
    lastCall.call = "render" =>
        LET deferred == lastTasks[1].deferred
            made == {k \in DOMAIN hWritten : hWritten[k].op \in TransientCreates}
        IN  /\ \A k \in made :
                  Cardinality({j \in DOMAIN deferred :
                                  /\ deferred[j].op = TransientDestroyOf(hWritten[k].op)
                                  /\ deferred[j].obj = hWritten[k].obj}) = 1
            /\ Len(deferred) = Cardinality(made)
            /\ lastTasks[1].state # "executed" =>
                  /\ hDestroyed = {}
                  /\ \A k \in DOMAIN hWritten : hWritten[k].op \notin TransientDestroys
            /\ lastTasks[1].state = "executed" =>
                  \A k \in made : hWritten[k].obj \in hDestroyed

\* A render() that returns the error of the graphics pipeline after it has made
\* all six objects; its task has executed.
C26_Witness ==
    /\ lastCall.call = "render"
    /\ lastCall.err = "GettingGraphicsPipeline"
    /\ Len(lastCall.job.inputs) = 2
    /\ Len(lastTasks[1].deferred) = 7
    /\ lastTasks[1].state = "executed"

\* What follows the last render pass on the task
AfterPasses ==
    LET ends == {k \in DOMAIN RenderCmds : RenderCmds[k].op = "VkCmdEndRenderPass"}
        last == CHOOSE k \in ends : \A j \in ends : j <= k
    IN  SubSeq(RenderCmds, last + 1, Len(RenderCmds))

\* The attachments a render job wants in another layout after the passes than
\* they are in: <<attachment, layout>>
WantedAfterPasses(job) ==
    {<<<<"input", k>>, job.inputs[k]>> :
        k \in {j \in DOMAIN job.inputs : job.inputs[j] # "SHADER_READ_ONLY_OPTIMAL"}}
    \cup (IF job.aspect = "STENCIL" THEN {<<<<"output", 0>>, job.finalLayout>>} ELSE {})

\* C27: a render() that returns no error records first, before any render
\* pass, one barrier that moves every input attachment to
\* SHADER_READ_ONLY_OPTIMAL and the output to COLOR_ATTACHMENT_OPTIMAL (color)
\* or DEPTH_STENCIL_ATTACHMENT_OPTIMAL (depth, stencil); after the last pass it
\* records one barrier that holds exactly the inputs whose final layout is not
\* SHADER_READ_ONLY_OPTIMAL and, for a stencil target, the output, each moved to
\* its final layout, and no barrier when there is none of them.
C27_BarriersAroundPasses ==
    (lastCall.call = "render" /\ lastCall.err = "nil") =>
        LET job == lastCall.job
            first == RenderCmds[1]
            wanted == WantedAfterPasses(job)
        IN  /\ first.op = "VkCmdPipelineBarrier"
            /\ \A k \in PassStarts : 1 < k
            /\ {<<first.obj[k].image, first.obj[k].newLayout>> : k \in DOMAIN first.obj}
                  = {<<<<"input", k>>, "SHADER_READ_ONLY_OPTIMAL">> : k \in DOMAIN job.inputs}
                    \cup {<<<<"output", 0>>,
                            IF job.aspect = "COLOR" THEN "COLOR_ATTACHMENT_OPTIMAL"
                            ELSE "DEPTH_STENCIL_ATTACHMENT_OPTIMAL">>}
            /\ Len(first.obj) = Len(job.inputs) + 1
            /\ IF wanted = {} THEN AfterPasses = <<>>
               ELSE /\ Len(AfterPasses) = 1
                    /\ AfterPasses[1].op = "VkCmdPipelineBarrier"
                    /\ Len(AfterPasses[1].obj) = Cardinality(wanted)
                    /\ {<<AfterPasses[1].obj[k].image, AfterPasses[1].obj[k].newLayout>> :
                           k \in DOMAIN AfterPasses[1].obj} = wanted

\* A color render with two inputs of which one stays in the layout it is read in
C27_Witness ==
    /\ lastCall.call = "render" /\ lastCall.err = "nil"
    /\ lastCall.job.aspect = "COLOR"
    /\ lastCall.job.inputs = <<"SHADER_READ_ONLY_OPTIMAL", "GENERAL">>
    /\ Len(AfterPasses) = 1

\* A depth render whose inputs all stay in the layout they are read in: no
\* trailing barrier
C27_WitnessNone ==
    /\ lastCall.call = "render" /\ lastCall.err = "nil"
    /\ lastCall.job.aspect = "DEPTH"
    /\ WantedAfterPasses(lastCall.job) = {}
    /\ AfterPasses = <<>>

\* ================================================================== claims: the descriptor set of store()

\* Where the command op of the k-th call is in the command stream
StoreWrites(op, k) == {n \in DOMAIN hWritten : hWritten[n].op = op /\ hWritten[n].by = k}

\* The calls whose task was committed
CommittedStores == {hWritten[n].by : n \in {m \in DOMAIN hWritten :
                                                hWritten[m].op = "vkQueueSubmit"}}

\* The descriptor sets the store handler has allocated, one per device
StoreDescSets == {caches[key] : key \in {q \in DOMAIN caches :
                                            q.h = "sh" /\ q.kind = "descSet"}}

C24_OneDstAspectPerSrcAspect ==
    /\ [][\A a \in DOMAIN hJob.srcAspectsToDsts :
              /\ a \in DOMAIN hJob'.srcAspectsToDsts
              /\ hJob'.srcAspectsToDsts[a].dstAspect = hJob.srcAspectsToDsts[a].dstAspect]_vars
    /\ [][(rolloutPc = "idle" /\ (addDstCall' # addDstCall \/ hJob' # hJob)) =>
              LET call == addDstCall'
                  old == hJob.srcAspectsToDsts
                  new == hJob'.srcAspectsToDsts
              IN  IF call.srcAspect \in DOMAIN old
                     /\ old[call.srcAspect].dstAspect # call.dstAspect
                  THEN call.err # "nil" /\ new = old
                  ELSE /\ call.err = "nil"
                       /\ new[call.srcAspect].dstAspect = call.dstAspect
                       /\ new[call.srcAspect].dstImgs
                             = (IF call.srcAspect \in DOMAIN old
                                THEN old[call.srcAspect].dstImgs ELSE <<>>) \o call.dstImgs
                       /\ \A a \in DOMAIN old \ {call.srcAspect} : new[a] = old[a]]_vars

\* A call for a source aspect that has a destination image already, with another
\* destination aspect
C24_Witness ==
    /\ addDstCall.err = "AspectMismatch"
    /\ addDstCall.dstImgs # <<>>
    /\ addDstCall.srcAspect \in DOMAIN hJob.srcAspectsToDsts
    /\ Len(hJob.srcAspectsToDsts[addDstCall.srcAspect].dstImgs) = 1
    /\ hJob.srcAspectsToDsts[addDstCall.srcAspect].dstAspect # addDstCall.dstAspect

\* ================================================================== claims: the length of a payload

\* Bytes of one texel of the source once getCopyAndData has unpacked it (every
\* channel widened to 4 bytes; a depth format has one channel, a color format
\* of the model one per byte) or has left it as it is
PayloadTexelBytes(fmt) ==
    IF fmt.src \in {"D32_SFLOAT", "X8_D24_UNORM_PACK32"}
    THEN IF fmt.src # fmt.dst \/ fmt.src = "X8_D24_UNORM_PACK32"
         THEN 4 ELSE ElementSize(fmt.src).level
    ELSE IF fmt.src # fmt.dst THEN 4 * ElementSize(fmt.src).level
    ELSE ElementSize(fmt.src).level

\* alignedLevelSizeInBuf of the block in the format of the destination
AlignedSizeInBuf(in) ==
    NextMultipleOf(LevelSize(in.extent, ElementSize(in.fmt.dst).inBuf), 8)

C25_WitnessError ==
    /\ cdOut # <<>>
    /\ cdOut.err = "UnexpectedLength"

\* ================================================================== claims: the mapped range

\* C28: in every ipPrimeableByPreinitialization.prime that succeeds the flushed
\* range is the mapped range, with the same offset (where the image is bound in
\* its memory) and the same size as the VkMapMemory, and the bytes of every
\* subresource lie inside that range.
C28_FlushIsMappedRange ==
    primeable.kind = "preinit" =>
        LET n == Len(BoundSubresources(img, collected))
        IN  \A p \in DOMAIN OkPrimes :
                LET b == PrimeBlock(p, n)
                IN  /\ b[n + 2].offset = b[1].offset
                    /\ b[n + 2].size = b[1].size
                    /\ \A k \in 1..n :
                          /\ b[1].offset <= b[1 + k].offset
                          /\ b[1 + k].offset + b[1 + k].size <= b[1].offset + b[1].size

\* The same without the offset of the flush: the sizes agree and the data lies
\* in the mapped range, no two subresources on the same bytes
C28_DataInMappedRange ==
    primeable.kind = "preinit" =>
        LET n == Len(BoundSubresources(img, collected))
        IN  \A p \in DOMAIN OkPrimes :
                LET b == PrimeBlock(p, n)
                IN  /\ b[n + 2].size = b[1].size
                    /\ \A k \in 1..n :
                          /\ b[1].offset <= b[1 + k].offset
                          /\ b[1 + k].offset + b[1 + k].size <= b[1].offset + b[1].size
                          /\ \A j \in 1..(k - 1) :
                                b[1 + j].offset + b[1 + j].size <= b[1 + k].offset


\* ================================================================== unpackData

\* A component of a stream format: its channel, the kind of its data type,
\* whether it is signed, whether it is sampled normalized, and its width
Component(channel, kind, signed, normalized, bits) ==
    [channel |-> channel, kind |-> kind, signed |-> signed,
     normalized |-> normalized, bits |-> bits]

\* An uncompressed image format of the components `cs`, and a compressed one
Uncompressed(cs) == [compressed |-> FALSE, components |-> cs]

CompressedFormat == [compressed |-> TRUE, components |-> <<>>]

\* The four components of a colour format, in the order `order`
ColourFormat(order, kind, signed, normalized, bits) ==
    Uncompressed([k \in 1..4 |-> Component(order[k], kind, signed, normalized, bits)])

\* The image formats of the sources: R8G8B8A8_UNORM, B8G8R8A8_UNORM,
\* R8G8B8A8_UINT, R8G8B8A8_SNORM, R8G8B8A8_SINT, R16G16B16A16_SINT,
\* R16G16B16A16_SFLOAT, the depth of D16_UNORM, of X8_D24_UNORM_PACK32 and of
\* D32_SFLOAT, S8_UINT, R32_SFLOAT, a red channel of a fixed-point data type,
\* and a block-compressed format
SrcFormats ==
    {ColourFormat(<<"Red", "Green", "Blue", "Alpha">>, "integer", FALSE, TRUE, 8),
     ColourFormat(<<"Blue", "Green", "Red", "Alpha">>, "integer", FALSE, TRUE, 8),
     ColourFormat(<<"Red", "Green", "Blue", "Alpha">>, "integer", FALSE, FALSE, 8),
     ColourFormat(<<"Red", "Green", "Blue", "Alpha">>, "integer", TRUE, TRUE, 8),
     ColourFormat(<<"Red", "Green", "Blue", "Alpha">>, "integer", TRUE, FALSE, 8),
     ColourFormat(<<"Red", "Green", "Blue", "Alpha">>, "integer", TRUE, FALSE, 16),
     ColourFormat(<<"Red", "Green", "Blue", "Alpha">>, "float", TRUE, FALSE, 16),
     Uncompressed(<<Component("Depth", "integer", FALSE, TRUE, 16)>>),
     Uncompressed(<<Component("Depth", "integer", FALSE, TRUE, 24)>>),
     Uncompressed(<<Component("Depth", "float", TRUE, FALSE, 32)>>),
     Uncompressed(<<Component("Stencil", "integer", FALSE, FALSE, 8)>>),
     Uncompressed(<<Component("Red", "float", TRUE, FALSE, 32)>>),
     Uncompressed(<<Component("Red", "fixed", TRUE, FALSE, 16)>>),
     CompressedFormat}

\* stagingColorImageBufferFormat and stagingDepthStencilImageBufferFormat
StagingColorImageBufferFormat ==
    ColourFormat(<<"Red", "Green", "Blue", "Alpha">>, "integer", FALSE, FALSE, 32)

StagingDepthStencilImageBufferFormat ==
    Uncompressed(<<Component("Red", "integer", FALSE, FALSE, 32)>>)

DstFormats ==
    {StagingColorImageBufferFormat, StagingDepthStencilImageBufferFormat, CompressedFormat}

\* The bytes of one texel of a format
TexelBytes(f) ==
    LET RECURSIVE Sum(_)
        Sum(k) == IF k = 0 THEN 0 ELSE (f.components[k].bits \div 8) + Sum(k - 1)
    IN  Sum(Len(f.components))

\* The byte at which component k of a texel starts, from 0
ComponentOffset(f, k) ==
    LET RECURSIVE Sum(_)
        Sum(j) == IF j = 0 THEN 0 ELSE (f.components[j].bits \div 8) + Sum(j - 1)
    IN  Sum(k - 1)


\* The position of the highest bit set in m > 0
RECURSIVE HighBit(_)
HighBit(m) == IF m < 2 THEN 0 ELSE 1 + HighBit(m \div 2)

\* The four little-endian bytes of the 32-bit float of sign s, exponent field e
\* and mantissa field m
Float32Bytes(s, e, m) ==
    <<m % 256, (m \div 256) % 256, ((e % 2) * 128) + (m \div 65536), (s * 128) + (e \div 2)>>

\* The 32-bit float of the value of a 16-bit float: the exponent is rebiased
\* from 15 to 127 and the mantissa moved up from 10 to 23 bits; a denormal is
\* normalized; infinities and NaNs keep an exponent field of all ones
HalfToFloat(bytes) ==
    LET h == bytes[1] + (256 * bytes[2])
        s == h \div 32768
        e == (h \div 1024) % 32
        m == h % 1024
        p == HighBit(m)
    IN  IF e = 0 /\ m = 0 THEN Float32Bytes(s, 0, 0)
        ELSE IF e = 0 THEN Float32Bytes(s, 103 + p, (m - Pow2(p)) * Pow2(23 - p))
        ELSE IF e = 31 THEN Float32Bytes(s, 255, m * 8192)
        ELSE Float32Bytes(s, e + 112, m * 8192)

\* A widening that extends every integer with zeros
WidenUnsigned(sc, bytes) ==
    IF sc.kind = "integer"
    THEN bytes \o [k \in 1..(4 - Len(bytes)) |-> 0]
    ELSE IF sc.bits = 16 THEN HalfToFloat(bytes) ELSE bytes

\* The conversion of the bytes of one component of the source to the data type
\* unpackData gives the component of the destination: U32 for an unsigned
\* integer, S32 for a signed one, F32 for a float
Widen(sc, bytes) ==
    IF sc.kind = "integer"
    THEN IF sc.signed
         THEN bytes \o [k \in 1..(4 - Len(bytes)) |->
                           IF bytes[Len(bytes)] >= 128 THEN 255 ELSE 0]
         ELSE bytes \o [k \in 1..(4 - Len(bytes)) |-> 0]
    ELSE IF sc.bits = 16 THEN HalfToFloat(bytes) ELSE bytes

\* The channel unpackData gives a component of the source
UnpackChannel(sc) == IF sc.channel \in {"Depth", "Stencil"} THEN "Red" ELSE sc.channel

\* df.Component(channel): the index of the component of the channel, 0 if none
ComponentOf(f, channel) ==
    IF \E k \in DOMAIN f.components : f.components[k].channel = channel
    THEN CHOOSE k \in DOMAIN f.components : f.components[k].channel = channel
    ELSE 0

\* The error of the first component of the source, in order, that unpackData
\* turns down, "nil" if it turns down none
RECURSIVE BuildFormatError(_, _, _)
BuildFormatError(sf, df, k) ==
    IF k > Len(sf.components) THEN "nil"
    ELSE IF ComponentOf(df, UnpackChannel(sf.components[k])) = 0 THEN "UnsupportedChannel"
    ELSE IF sf.components[k].kind \notin {"integer", "float"} THEN "UnhandledDataType"
    ELSE BuildFormatError(sf, df, k + 1)

\* stream.Convert(df, sf, data): texel by texel, every component of the
\* destination takes the widened bytes of the component of the source that
\* has its channel
Convert(df, sf, data) ==
    LET n == Len(data) \div TexelBytes(sf)
        SrcOf(d) == CHOOSE k \in DOMAIN sf.components :
                        UnpackChannel(sf.components[k]) = df.components[d].channel
        SrcBytes(t, k) == [b \in 1..(sf.components[k].bits \div 8) |->
                              data[((t - 1) * TexelBytes(sf)) + ComponentOffset(sf, k) + b]]
    IN  Flatten([q \in 1..(n * Len(df.components)) |->
                    LET t == ((q - 1) \div Len(df.components)) + 1
                        d == ((q - 1) % Len(df.components)) + 1
                    IN  Widen(sf.components[SrcOf(d)], SrcBytes(t, SrcOf(d)))])

UnpackData(data, srcFmt, dstFmt) ==
    IF srcFmt.compressed THEN [err |-> "CompressedSrc", data |-> <<>>]
    ELSE IF dstFmt.compressed THEN [err |-> "CompressedDst", data |-> <<>>]
    ELSE IF BuildFormatError(srcFmt, dstFmt, 1) # "nil"
    THEN [err |-> BuildFormatError(srcFmt, dstFmt, 1), data |-> <<>>]
    ELSE [err |-> "nil", data |-> Convert(dstFmt, srcFmt, data)]


\* The highest byte of the values of a channel: of a negative and of a positive
\* integer, of a normal and of a denormal 16-bit float, of a NaN
TopBytes == <<200, 0, 128, 60, 127, 255, 1>>

\* The little-endian bytes of value v of component k
ChannelBytes(bits, v, k) ==
    [b \in 1..(bits \div 8) |->
        IF b = bits \div 8 THEN TopBytes[v] ELSE ((v * 37) + (k * 11) + (b * 5)) % 256]

\* The data of `texels` texels of format f: component k of texel t holds the
\* value pick[k], the picks moved on by one from texel to texel; a compressed
\* format holds one byte for a pick
UnpackInput(f, texels, pick) ==
    LET n == Len(f.components)
    IN  IF f.compressed THEN [b \in DOMAIN pick |-> TopBytes[pick[b]]]
        ELSE Flatten([q \in 1..(texels * n) |->
                         LET t == ((q - 1) \div n) + 1
                             k == ((q - 1) % n) + 1
                         IN  ChannelBytes(f.components[k].bits,
                                          pick[((k + t - 2) % n) + 1], k)])

\* Whether every component of the destination has a component of the source
\* to take its value from
AllChannelsGiven(sf, df) ==
    \A d \in DOMAIN df.components :
        \E k \in DOMAIN sf.components :
            UnpackChannel(sf.components[k]) = df.components[d].channel

\* A source format, a destination format and the data of some texels; a
\* destination with a channel the source does not give is left out unless
\* unpackData turns the pair down
InitUnpackData ==
    /\ SelectorIdle
    /\ RolloutIdle
    /\ StencilIdle
    /\ HandlersIdle
    /\ ThreadsIdle
    /\ cdOut = <<>>
    /\ \E sf \in SrcFormats, df \in DstFormats, texels \in 1..MaxUnpackTexels :
         /\ \/ sf.compressed
            \/ df.compressed
            \/ BuildFormatError(sf, df, 1) # "nil"
            \/ AllChannelsGiven(sf, df)
         /\ \E pick \in [1..(IF sf.compressed THEN 1 ELSE Len(sf.components)) -> 1..NumValues] :
              cdIn = [sf |-> sf, df |-> df, texels |-> texels, pick |-> pick,
                      data |-> UnpackInput(sf, texels, pick)]

UnpackDataCall ==
    /\ cdIn # <<>>
    /\ cdOut = <<>>
    /\ cdOut' = UnpackData(cdIn.data, cdIn.sf, cdIn.df)
    /\ UNCHANGED cdIn
    /\ UNCHANGED <<selVars, rollVars, stVars, hdlVars, thrVars>>

NextUnpackData == UnpackDataCall

SpecUnpackData == InitUnpackData /\ [][NextUnpackData]_vars


\* ================================================================== claims: unpackData

\* The value of little-endian bytes as an unsigned integer
RECURSIVE UnsignedValue(_)
UnsignedValue(bytes) ==
    IF bytes = <<>> THEN 0 ELSE Head(bytes) + (256 * UnsignedValue(Tail(bytes)))

\* The value of little-endian bytes as a two's complement integer
SignedValue(bytes) ==
    LET n == Len(bytes)
        top == bytes[n]
    IN  UnsignedValue(SubSeq(bytes, 1, n - 1))
        + ((IF top >= 128 THEN top - 256 ELSE top) * Pow2(8 * (n - 1)))

\* m * 2^e with m odd, or zero
RECURSIVE Dyadic(_, _)
Dyadic(m, e) ==
    IF m = 0 THEN [m |-> 0, e |-> 0]
    ELSE IF m % 2 = 0 THEN Dyadic(m \div 2, e + 1)
    ELSE [m |-> m, e |-> e]

\* The value of the little-endian bytes of a float with `mant` bits of
\* mantissa and an exponent of bias `bias`
FloatValue(bytes, mant, bias) ==
    LET n == Len(bytes)
        s == bytes[n] \div 128
        rest == UnsignedValue([b \in 1..n |-> IF b = n THEN bytes[n] % 128 ELSE bytes[b]])
        e == rest \div Pow2(mant)
        m == rest % Pow2(mant)
    IN  IF e = Pow2((8 * n) - 1 - mant) - 1
        THEN [kind |-> IF m = 0 THEN "inf" ELSE "nan", sign |-> s, m |-> 0, e |-> 0]
        ELSE IF e = 0
        THEN [kind |-> "finite", sign |-> s] @@ Dyadic(m, 1 - bias - mant)
        ELSE [kind |-> "finite", sign |-> s] @@ Dyadic(Pow2(mant) + m, e - bias - mant)

\* The bytes of component k of texel t of the data unpacked
UnpackedSource(t, k) ==
    LET sf == cdIn.sf
        from == ((t - 1) * TexelBytes(sf)) + ComponentOffset(sf, k)
    IN  SubSeq(cdIn.data, from + 1, from + (sf.components[k].bits \div 8))

\* The 32 bits the unpacked data holds in the channel `channel` of texel t
UnpackedChannel(t, channel) ==
    LET df == cdIn.df
        d == CHOOSE j \in DOMAIN df.components : df.components[j].channel = channel
        from == (((t - 1) * Len(df.components)) + (d - 1)) * 4
    IN  SubSeq(cdOut.data, from + 1, from + 4)

\* C29: unpackData turns down a compressed source or destination format with
\* an error and no output; otherwise, in every texel, the channel of every
\* component of the source (red for depth and stencil) holds 32 bits: the same
\* unsigned integer for an unsigned integer or unsigned normalized component,
\* the same signed integer for a signed one, the same number as a 32-bit float
\* for a float.
C29_UnpackDataWidens ==
    (cdOut # <<>>) =>
        /\ (cdIn.sf.compressed \/ cdIn.df.compressed) =>
               (cdOut.err # "nil" /\ cdOut.data = <<>>)
        /\ cdOut.err # "nil" => cdOut.data = <<>>
        /\ cdOut.err = "nil" =>
             /\ Len(cdOut.data) = cdIn.texels * Len(cdIn.df.components) * 4
             /\ \A t \in 1..cdIn.texels, k \in DOMAIN cdIn.sf.components :
                  LET sc == cdIn.sf.components[k]
                      in == UnpackedSource(t, k)
                      out == UnpackedChannel(t, IF sc.channel \in {"Depth", "Stencil"}
                                                THEN "Red" ELSE sc.channel)
                  IN  /\ (sc.kind = "integer" /\ ~sc.signed) =>
                             UnsignedValue(out) = UnsignedValue(in)
                      /\ (sc.kind = "integer" /\ sc.signed) =>
                             SignedValue(out) = SignedValue(in)
                      /\ sc.kind = "float" =>
                             FloatValue(out, 23, 127) =
                                 FloatValue(in, IF sc.bits = 16 THEN 10 ELSE 23,
                                            IF sc.bits = 16 THEN 15 ELSE 127)

\* An unsigned normalized 8-bit channel of value 200 is unpacked to 200
C29_Witness ==
    /\ cdOut # <<>>
    /\ cdOut.err = "nil"
    /\ \E k \in DOMAIN cdIn.sf.components :
         /\ cdIn.sf.components[k] = Component("Blue", "integer", FALSE, TRUE, 8)
         /\ k = 1
         /\ UnpackedSource(1, k) = <<200>>
         /\ UnpackedChannel(1, "Blue") = <<200, 0, 0, 0>>

\* A negative signed 8-bit channel is unpacked to the same negative number
C29_WitnessSigned ==
    /\ cdOut # <<>>
    /\ cdOut.err = "nil"
    /\ \E k \in DOMAIN cdIn.sf.components :
         /\ cdIn.sf.components[k].signed
         /\ cdIn.sf.components[k].kind = "integer"
         /\ cdIn.sf.components[k].normalized
         /\ SignedValue(UnpackedSource(cdIn.texels, k)) = -56
         /\ cdIn.texels = 2
         /\ SignedValue(UnpackedChannel(2, cdIn.sf.components[k].channel)) = -56

\* A 16-bit float channel is unpacked to the 32-bit float of its value
C29_WitnessFloat ==
    /\ cdOut # <<>>
    /\ cdOut.err = "nil"
    /\ \E k \in DOMAIN cdIn.sf.components :
         /\ cdIn.sf.components[k].kind = "float"
         /\ cdIn.sf.components[k].bits = 16
         /\ FloatValue(UnpackedSource(1, k), 10, 15).kind = "finite"
         /\ FloatValue(UnpackedSource(1, k), 10, 15).e < -14
         /\ UnpackedChannel(1, cdIn.sf.components[k].channel) # UnpackedSource(1, k) \o <<0, 0>>

\* A depth channel is unpacked into the red channel
C29_WitnessDepth ==
    /\ cdOut # <<>>
    /\ cdOut.err = "nil"
    /\ cdIn.sf.components[1].channel = "Depth"
    /\ cdIn.sf.components[1].bits = 24
    /\ UnpackedChannel(1, "Red") = UnpackedSource(1, 1) \o <<0>>

\* A compressed destination format is turned down
C29_WitnessCompressed ==
    /\ cdOut # <<>>
    /\ ~cdIn.sf.compressed
    /\ cdIn.df.compressed
    /\ cdOut.err = "CompressedDst"
    /\ cdOut.data = <<>>


\* ================================================================== claims: layouts of a render target

\* The layout events of the task prime() committed
TargetEvents == lastTasks[1].events

\* The first layout event of the commands of render job j
FirstEventOf(j) ==
    TargetEvents[CHOOSE n \in DOMAIN TargetEvents :
                     /\ TargetEvents[n].job = j
                     /\ \A m \in 1..(n - 1) : TargetEvents[m].job # j]

\* C31: in the commands prime(srcLayout, dstLayout) of an ipPrimeableByRendering
\* commits, the barrier that moves the render target of a job to its attachment
\* layout has as old layout srcLayout.layoutOf(aspect, layer, level) of the job.
C31_SourceLayoutsHonoured ==
    (lastCall.call = "primeLayouts" /\ lastTasks # <<>>) =>
        \A k \in DOMAIN lastCall.job.jobs :
            LET j == lastCall.job.jobs[k]
                e == FirstEventOf(j)
            IN  /\ e.kind = "barrier"
                /\ e.newLayout = CreateRenderPass(j.aspect, j.finalLayout).initialLayout
                /\ e.oldLayout = LayoutOf(lastCall.job.srcLayout, j.aspect, 0, j.level)

\* The layout of level l of aspect a after the first n layout events of the
\* task, from the layout `init` before the task
RECURSIVE LayoutAfter(_, _, _, _)
LayoutAfter(n, a, l, init) ==
    IF n = 0 THEN init
    ELSE IF a \in TargetEvents[n].aspects /\ l \in TargetEvents[n].levels
         THEN TargetEvents[n].newLayout
         ELSE LayoutAfter(n - 1, a, l, init)

\* C32: in the commands prime() of an ipPrimeableByRendering commits for an
\* image with a depth and a stencil aspect, the old layout of every barrier
\* and the initial layout of every render pass on the image is, for every
\* subresource of its range, the layout the commands before it left the
\* subresource in.
C32_OldLayoutIsActualLayout ==
    (/\ lastCall.call = "primeLayouts"
     /\ lastTasks # <<>>
     /\ lastCall.job.image.aspects = <<"DEPTH", "STENCIL">>) =>
        \A n \in DOMAIN TargetEvents :
            \A a \in TargetEvents[n].aspects \cap {"DEPTH", "STENCIL"},
               l \in TargetEvents[n].levels \cap (0..(lastCall.job.image.levels - 1)) :
                TargetEvents[n].oldLayout =
                    LayoutAfter(n - 1, a, l, lastCall.job.image.layouts[l])


\* ================================================================== claims: device data

\* The entries of the calls of changeImageSubRangeLayoutAndOwnership written
\* so far, in order
WrittenTransitions ==
    LET ts == {k \in DOMAIN written : written[k].op = "changeImageSubRangeLayoutAndOwnership"}
        RECURSIVE InOrder(_)
        InOrder(k) == IF k > Len(written) THEN <<>>
                      ELSE (IF k \in ts THEN <<written[k].obj>> ELSE <<>>) \o InOrder(k + 1)
    IN  InOrder(1)

\* C33: after an image-store primeable was built from device data, the
\* transition of every subresource of the image to GENERAL written before the
\* inverse stores is followed by a transition of the same subresources from
\* GENERAL back to the layouts they had.
C33_DeviceBuildRestoresLayouts ==
    (pc = "built" /\ strategy = "store" /\ ~fromHostData) =>
        /\ Len(WrittenTransitions) = 2
        /\ WrittenTransitions[1] = PreLoadStoreTransitionInfo(img)
        /\ WrittenTransitions[2] =
               [k \in DOMAIN WrittenTransitions[1] |->
                   [WrittenTransitions[1][k] EXCEPT
                       !.oldLayout = "GENERAL",
                       !.newLayout = WrittenTransitions[1][k].oldLayout]]


\* ================================================================== claims: collected copies

\* The sum of the sizes of a sequence of fill infos
RECURSIVE SizeOfContent(_)
SizeOfContent(c) == IF c = <<>> THEN 0 ELSE Head(c).size + SizeOfContent(Tail(c))

\* The sum of the sizes of the fill infos of the images `ds`
RECURSIVE SizeOfContents(_)
SizeOfContents(ds) ==
    IF ds = {} THEN 0
    ELSE LET d == CHOOSE x \in ds : TRUE
         IN  SizeOfContent(hContent[d]) + SizeOfContents(ds \ {d})

\* C34: after any calls of collectCopiesFromSubresourceRange and
\* collectCopiesFromSparseImageBindings, copies and content hold, for every
\* destination image, as many entries, entry k of the one is for the region of
\* entry k of the other, and totalSize is the sum of the sizes of all entries
\* of content.
C34_CopiesPairWithContent ==
    /\ DOMAIN hCopies = DOMAIN hContent
    /\ \A d \in DOMAIN hCopies : Len(hCopies[d]) = Len(hContent[d])
    /\ \A d \in DOMAIN hCopies : \A k \in DOMAIN hCopies[d] :
          hCopies[d][k].id = hContent[d][k].id
    /\ totalSize = SizeOfContents(DOMAIN hContent)

\* Both functions were called, a getCopyAndData failed, and a destination image
\* has a copy of a level and a copy of a sparse block
C34_Witness ==
    /\ collects = 2
    /\ logged # {}
    /\ totalSize > 0
    /\ \E d \in DOMAIN hCopies :
          /\ Len(hCopies[d]) = 2
          /\ hCopies[d][1].id[2] = 0
          /\ hCopies[d][2].id[2] = SparseBlock(1)


\* ================================================================== claims: order of the cleanups

\* The descriptor pool a descriptor set was allocated from: render() allocates
\* its set from the pool it has just created
PoolOfSet(set) ==
    LET alloc == CHOOSE n \in DOMAIN hWritten :
                     hWritten[n].op = "vkAllocateDescriptorSet" /\ hWritten[n].obj = set
        pools == {n \in 1..alloc : hWritten[n].op = "vkCreateDescriptorPool"}
    IN  hWritten[CHOOSE n \in pools : \A m \in pools : m <= n].obj

\* The objects a cleanup is called on
CleanupOperands(c) ==
    IF c.op = "VkFreeDescriptorSets" THEN {c.obj, PoolOfSet(c.obj)} ELSE {c.obj}

\* The objects that are gone after a cleanup: the object it destroys and, for
\* a descriptor pool, the descriptor sets allocated from it
CleanupDestroys(c, all) ==
    IF c.op = "VkDestroyDescriptorPool"
    THEN {c.obj} \cup {all[n].obj : n \in {m \in DOMAIN all :
                                              /\ all[m].op = "VkFreeDescriptorSets"
                                              /\ PoolOfSet(all[m].obj) = c.obj}}
    ELSE {c.obj}

\* C35: when the cleanups render() deferred on a task have run, in the order
\* they were registered in, none of them was called on an object an earlier one
\* had destroyed: the descriptor set is freed before its pool is destroyed.
C35_CleanupsInDependencyOrder ==
    (lastCall.call = "render" /\ lastTasks[1].state = "executed") =>
        LET d == lastTasks[1].deferred
        IN  \A n \in DOMAIN d : \A m \in 1..(n - 1) :
                CleanupOperands(d[n]) \cap CleanupDestroys(d[m], d) = {}


\* ---- the bit index of a stencil pass ----

\* The bit index a recorded push-constants closure pushes when it runs
PushedIndex(cmd) == IF cmd.shared THEN loopI ELSE cmd.index

\* C36: when the recorded closures run at commit time, after render() and its
\* loop have finished, the push constant recorded with pass i carries the bit
\* index i and is paired with the write mask 1<<i, so the passes carry the
\* distinct indices 0..StencilPasses-1.
C36_PushConstantCarriesPassIndex ==
    (stencilPc = "committed") =>
        /\ Len(recorded) = 2 * StencilPasses
        /\ \A i \in 0..(StencilPasses - 1) :
              /\ recorded[2 * i + 1].kind = "push"
              /\ PushedIndex(recorded[2 * i + 1]) = i
              /\ recorded[2 * i + 2].kind = "draw"
              /\ recorded[2 * i + 2].writeMask = Pow2(i)


\* ---- the descriptor types of store() ----

ipImageStoreOutputImageBinding == 0
ipImageStoreInputImageBinding == 1
ipImageStoreUniformBufferBinding == 2

\* descPoolSizes of store(): what the pool of a device is created with
DescPoolSizes ==
    <<[type |-> "STORAGE_IMAGE", descriptorCount |-> 2],
      [type |-> "UNIFORM_BUFFER", descriptorCount |-> 1]>>

\* bindings of store(): what the descriptor-set layout of a device declares
DescSetLayoutBindings ==
    <<[binding |-> ipImageStoreOutputImageBinding, descriptorType |-> "STORAGE_IMAGE",
       descriptorCount |-> 1],
      [binding |-> ipImageStoreInputImageBinding, descriptorType |-> "UNIFORM_TEXEL_BUFFER",
       descriptorCount |-> 1],
      [binding |-> ipImageStoreUniformBufferBinding, descriptorType |-> "UNIFORM_BUFFER",
       descriptorCount |-> 1]>>

\* The two writeDescriptorSet calls of the doOnCommitted callback of store():
\* the binding written and the descriptor type it is written with
DescriptorWrites ==
    <<[name |-> "output", dstBinding |-> ipImageStoreOutputImageBinding,
       descriptorType |-> "STORAGE_IMAGE"],
      [name |-> "input", dstBinding |-> ipImageStoreInputImageBinding,
       descriptorType |-> "STORAGE_IMAGE"]>>

\* The type the layout declares for a binding
DeclaredType(binding) ==
    LET b == CHOOSE n \in DOMAIN DescSetLayoutBindings :
                 DescSetLayoutBindings[n].binding = binding
    IN  DescSetLayoutBindings[b].descriptorType

\* The write of store() a vkUpdateDescriptorSets command stands for
WriteOf(cmd) ==
    DescriptorWrites[CHOOSE n \in DOMAIN DescriptorWrites :
                         DescriptorWrites[n].name = cmd.obj.binding]

RECURSIVE CountOfType(_, _)
\* Descriptors of a type in a list of pool sizes or of layout bindings
CountOfType(list, type) ==
    IF list = <<>> THEN 0
    ELSE (IF (IF "type" \in DOMAIN Head(list) THEN Head(list).type
              ELSE Head(list).descriptorType) = type
          THEN Head(list).descriptorCount ELSE 0) + CountOfType(Tail(list), type)

\* C37: every descriptor store() writes into the descriptor set of a device
\* has the type the layout of the set declares for that binding, and the pool
\* the set is allocated from provides a descriptor of each declared type.
C37_DescriptorTypesAgree ==
    /\ \A n \in DOMAIN hWritten :
          hWritten[n].op = "vkUpdateDescriptorSets" =>
              WriteOf(hWritten[n]).descriptorType
                  = DeclaredType(WriteOf(hWritten[n]).dstBinding)
    /\ StoreDescSets # {} =>
          \A n \in DOMAIN DescSetLayoutBindings :
              CountOfType(DescPoolSizes, DescSetLayoutBindings[n].descriptorType)
                  >= CountOfType(DescSetLayoutBindings,
                                 DescSetLayoutBindings[n].descriptorType)


\* ---- the maps of the store handler after free() ----

\* The handles that are gone after the free() of the handlers: those a destroy
\* was written for, and the descriptor sets allocated from a destroyed pool
DestroyedByFree ==
    hDestroyed \cup {caches[k] : k \in {q \in DOMAIN caches :
                                           /\ q.kind = "descSet"
                                           /\ PoolOfSet(caches[q]) \in hDestroyed}}

\* C38: after ipImageStoreHandler.free() no map of the handler holds a handle
\* of an object free() destroyed, directly or through the destruction of its
\* descriptor pool, so a later store() on the device finds no destroyed
\* descriptor set, pipeline or layout.
C38_NoDestroyedHandleCached ==
    (hPc = "freed") =>
        \A k \in DOMAIN caches : k.h = "sh" => caches[k] \notin DestroyedByFree


\* ---- the batching loop of rolloutBufCopies ----

\* The committed batches of the run of the batching loop that task n is of:
\* the copy tasks after the last pre-copy transition before n, up to n
BatchesUpTo(n) ==
    LET pre == {m \in 1..n : committed[m].kind = "preCopy"}
        last == CHOOSE m \in pre : \A q \in pre : q <= m
    IN  {m \in last..n : committed[m].kind = "copy"}

\* One round of the batching loop: the pending list before and after it
BatchingRound ==
    (rolloutPc = "batch") =>
        LET n == Len(notProcessedCopies) - Len(notProcessedCopies')
        IN  /\ n >= 1
            /\ notProcessedCopies'
                  = SubSeq(notProcessedCopies, n + 1, Len(notProcessedCopies))
            /\ committed' # committed =>
                  /\ Len(committed') = Len(committed) + 1
                  /\ [i \in 1..n |-> committed'[Len(committed')].copies[i].id]
                        = [i \in 1..n |-> notProcessedCopies[i].id]
                  /\ Len(committed'[Len(committed')].copies) = n

\* rolloutBufCopies runs on one goroutine and no step of it waits: a step that
\* can be taken is taken
SpecRolloutFair == SpecRollout /\ WF_vars(NextRollout)

C39_WitnessOversized ==
    \E n \in DOMAIN committed :
        /\ committed[n].kind = "copy"
        /\ committed[n].bufOffset > scratchBufferSize
        /\ Len(committed[n].copies) = 1


====
